---------------------------- MODULE Spec2Model ----------------------------
(***************************************************************************)
(* A model of the FashionAIApi trend pipeline: the batch generator         *)
(* (fashion-trends/scripts/generateTrends.js) and the API service          *)
(* (node-trends-api).                                                      *)
(*                                                                         *)
(* JavaScript numbers are modelled as exact rationals n/d (records with a  *)
(* positive denominator, kept in lowest terms), NaN and undefined as       *)
(* records of the same shape with another tag.  Samples are finite.        *)
(***************************************************************************)
EXTENDS Integers, Sequences, FiniteSets, TLC

(***************************************************************************)
(* Bounds of the model.                                                    *)
(***************************************************************************)
\* longest timeline the provider returns in the scoring specification
MaxLen == 3
\* number of keywords of a run (a run that shows the batch loop has BATCH_SIZE + 1)
NumKeywords == 3

(***************************************************************************)
(* JavaScript numbers.                                                     *)
(***************************************************************************)
Abs(x) == IF x < 0 THEN -x ELSE x

RECURSIVE Gcd(_, _)
Gcd(a, b) == IF b = 0 THEN a ELSE Gcd(b, a % b)

\* the number n/d (d > 0), in lowest terms
Num(n, d) ==
    LET g == Gcd(Abs(n), d)
    IN  [k |-> "num", n |-> n \div g, d |-> d \div g]

NaN == [k |-> "nan", n |-> 0, d |-> 1]
Undefined == [k |-> "undef", n |-> 0, d |-> 1]
Zero == Num(0, 1)

IsNaN(x) == x.k = "nan"
Add(x, y) == Num(x.n * y.d + y.n * x.d, x.d * y.d)
Sub(x, y) == Num(x.n * y.d - y.n * x.d, x.d * y.d)
MulInt(x, m) == Num(x.n * m, x.d)
DivInt(x, m) == Num(x.n, x.d * m)
Less(x, y) == x.n * y.d < y.n * x.d
MathMax(x, y) == IF Less(x, y) THEN y ELSE x
MathMin(x, y) == IF Less(y, x) THEN y ELSE x
\* Math.round: the nearest integer, a tie going up
MathRound(x) == (2 * x.n + x.d) \div (2 * x.d)
Floor(x) == x.n \div x.d
Ceil(x) == -((-x.n) \div x.d)


(***************************************************************************)
(* The trend provider's answer to one interestOverTime call.               *)
(*   kind "reject"      the promise rejects (network, rate limit)          *)
(*   kind "unparsable"  the body is not JSON: JSON.parse throws            *)
(*   kind "noTimeline"  no default.timelineData / timeline_data            *)
(*   kind "notArray"    timelineData is a truthy value that is no array    *)
(*   kind "timeline"    timelineData is the array `timeline`               *)
(* A timeline entry d is a record of the fields the code probes; a field   *)
(* holds the result of Number(field), or Undefined when it is absent.      *)
(***************************************************************************)
NoValues0 == [present |-> FALSE, extracted_value |-> Undefined, value |-> Undefined]
NullEntry == [isNull |-> TRUE, values0 |-> NoValues0, value |-> Undefined, extracted_value |-> Undefined]
NullSample == [k |-> "null", n |-> 0, d |-> 1]

EntryShapes == {"values[0].extracted_value", "values[0].value", "value", "extracted_value"}

\* the entry of the given shape carrying sample x (Undefined: the field is absent)
MkEntry(shape, x) ==
    IF x.k = "null" THEN NullEntry
    ELSE [isNull |-> FALSE,
          values0 |-> IF shape = "values[0].extracted_value"
                        THEN [present |-> TRUE, extracted_value |-> x, value |-> Undefined]
                      ELSE IF shape = "values[0].value"
                        THEN [present |-> TRUE, extracted_value |-> Undefined, value |-> x]
                      ELSE NoValues0,
          value |-> IF shape = "value" THEN x ELSE Undefined,
          extracted_value |-> IF shape = "extracted_value" THEN x ELSE Undefined]

MkTimeline(shape, xs) == [i \in 1..Len(xs) |-> MkEntry(shape, xs[i])]

Response(kind, timeline) == [kind |-> kind, timeline |-> timeline]

(***************************************************************************)
(* Promises: the outcome of a callback and the state of a settled promise. *)
(***************************************************************************)
Returned(v) == [threw |-> FALSE, value |-> v]
Thrown(v) == [threw |-> TRUE, value |-> v]
Fulfilled(v) == [state |-> "fulfilled", value |-> v]
Rejected(v) == [state |-> "rejected", value |-> v]

RECURSIVE SumSeq(_)
SumSeq(s) == IF s = <<>> THEN Zero ELSE Add(Head(s), SumSeq(Tail(s)))

(***************************************************************************)
(* generateTrends.js: fetchTrendMetrics                                    *)
(***************************************************************************)
ZeroMetrics(keyword) ==
    [keyword |-> keyword, averageInterest |-> Zero, trendSlope |-> Zero, score |-> 0]

\* a map callback that coerces in every entry shape
Gen_sample_coerceAll(d) ==
    LET n == IF d.values0.present
               THEN IF d.values0.extracted_value.k # "undef" THEN d.values0.extracted_value
                    ELSE IF d.values0.value.k # "undef" THEN d.values0.value
                    ELSE NaN
             ELSE IF d.value.k # "undef" THEN d.value
             ELSE IF d.extracted_value.k # "undef" THEN d.extracted_value
             ELSE Zero
    IN  IF IsNaN(n) THEN Zero ELSE MathMax(Zero, n)

\* the timeline.map callback
Gen_sample(d) ==
    IF d.values0.present
      THEN LET v == d.values0
               n == IF v.extracted_value.k # "undef" THEN v.extracted_value
                    ELSE IF v.value.k # "undef" THEN v.value
                    ELSE NaN
           IN  IF IsNaN(n) THEN Zero ELSE MathMax(Zero, n)
    ELSE IF d.value.k # "undef" THEN d.value
    ELSE IF d.extracted_value.k # "undef" THEN d.extracted_value
    ELSE Zero

\* the .filter callback
Gen_keep(v) == ~IsNaN(v) /\ ~Less(v, Zero)

Gen_values(timeline) ==
    SelectSeq([i \in 1..Len(timeline) |-> Gen_sample(timeline[i])], Gen_keep)

Gen_trendSlope(values) ==
    IF Len(values) > 1
      THEN DivInt(Sub(values[Len(values)], values[1]), Len(values) - 1)
      ELSE Zero

\* mutant: the score is not capped at 100
Gen_score_uncapped(averageInterest, trendSlope) ==
    MathRound(MathMax(Zero, Add(averageInterest, MulInt(MathMax(Zero, trendSlope), 2))))

\* a score that adds the slope with its sign
Gen_score_signedSlope(averageInterest, trendSlope) ==
    MathRound(MathMin(Num(100, 1),
                      MathMax(Zero, Add(averageInterest, MulInt(trendSlope, 2)))))

Gen_score(averageInterest, trendSlope) ==
    MathRound(MathMin(Num(100, 1),
                      MathMax(Zero, Add(averageInterest, MulInt(MathMax(Zero, trendSlope), 2)))))

\* mutant: the score is computed from the rounded averageInterest and trendSlope
Gen_metrics_fromRounded(keyword, values) ==
    LET averageInterest == Num(MathRound(MulInt(DivInt(SumSeq(values), Len(values)), 10)), 10)
        trendSlope == Num(MathRound(MulInt(Gen_trendSlope(values), 100)), 100)
    IN  [keyword |-> keyword,
         averageInterest |-> averageInterest,
         trendSlope |-> trendSlope,
         score |-> Gen_score(averageInterest, trendSlope)]

Gen_metrics(keyword, values) ==
    LET averageInterest == DivInt(SumSeq(values), Len(values))
        trendSlope == Gen_trendSlope(values)
    IN  [keyword |-> keyword,
         averageInterest |-> Num(MathRound(MulInt(averageInterest, 10)), 10),
         trendSlope |-> Num(MathRound(MulInt(trendSlope, 100)), 100),
         score |-> Gen_score(averageInterest, trendSlope)]

\* the .then callback
Gen_then(keyword, res) ==
    IF res.kind = "unparsable" THEN Thrown(ZeroMetrics(keyword))
    ELSE IF res.kind \in {"noTimeline", "notArray"} \/ Len(res.timeline) = 0
      THEN Returned(ZeroMetrics(keyword))
    ELSE IF \E i \in 1..Len(res.timeline) : res.timeline[i].isNull
      THEN Thrown(ZeroMetrics(keyword))
    ELSE LET values == Gen_values(res.timeline)
         IN  IF Len(values) = 0
               THEN Returned(ZeroMetrics(keyword))
               ELSE Returned(Gen_metrics(keyword, values))

\* a chain without the .catch callback: a throw rejects the keyword's promise
Gen_catch_absent(keyword, outcome) ==
    IF outcome.threw THEN Rejected(outcome.value) ELSE Fulfilled(outcome.value)

\* the .catch callback, applied to the outcome of the chain before it
Gen_catch(keyword, outcome) ==
    IF outcome.threw
      THEN Fulfilled([keyword |-> keyword, averageInterest |-> Zero, trendSlope |-> Zero, score |-> 0])
      ELSE Fulfilled(outcome.value)

fetchTrendMetrics(keyword, res) ==
    Gen_catch(keyword,
              IF res.kind = "reject" THEN Thrown(ZeroMetrics(keyword)) ELSE Gen_then(keyword, res))

(***************************************************************************)
(* trendsService.js: getInterestForKeyword                                 *)
(***************************************************************************)
Api_sample(d) ==
    IF d.values0.present
      THEN LET v == d.values0
               n == IF v.extracted_value.k # "undef" THEN v.extracted_value
                    ELSE IF v.value.k # "undef" THEN v.value
                    ELSE NaN
           IN  IF IsNaN(n) THEN Zero ELSE n
    ELSE IF d.extracted_value.k # "undef" THEN d.extracted_value
    ELSE IF d.value.k # "undef" THEN d.value
    ELSE Zero

Api_keep(v) == ~IsNaN(v) /\ ~Less(v, Zero)

Api_values(timeline) ==
    SelectSeq([i \in 1..Len(timeline) |-> Api_sample(timeline[i])], Api_keep)

RECURSIVE MaxSeq(_)
MaxSeq(s) == IF Len(s) = 1 THEN s[1] ELSE MathMax(Head(s), MaxSeq(Tail(s)))

Api_score(values) ==
    LET max == IF Len(values) > 0 THEN MaxSeq(values) ELSE Zero
    IN  MathRound(MathMin(Num(100, 1), MathMax(Zero, max)))

Api_then(keyword, res) ==
    IF res.kind = "unparsable" THEN Thrown([keyword |-> keyword, score |-> 0])
    ELSE IF res.kind \in {"noTimeline", "notArray"} \/ Len(res.timeline) = 0
      THEN Returned([keyword |-> keyword, score |-> 0])
    ELSE IF \E i \in 1..Len(res.timeline) : res.timeline[i].isNull
      THEN Thrown([keyword |-> keyword, score |-> 0])
    ELSE Returned([keyword |-> keyword, score |-> Api_score(Api_values(res.timeline))])

Api_catch(keyword, outcome) ==
    IF outcome.threw
      THEN Fulfilled([keyword |-> keyword, score |-> 0])
      ELSE Fulfilled(outcome.value)

getInterestForKeyword(keyword, res) ==
    Api_catch(keyword,
              IF res.kind = "reject" THEN Thrown([keyword |-> keyword, score |-> 0])
              ELSE Api_then(keyword, res))

(***************************************************************************)
(* Strings.  A string is a TLA+ string; Chars gives the characters of every *)
(* string the model handles, so that includes() is a real substring test   *)
(* and toLowerCase() a real conversion.                                    *)
(***************************************************************************)
Chars ==
       ("office outfit women" :> <<"o", "f", "f", "i", "c", "e", " ", "o", "u", "t", "f", "i", "t", " ", "w", "o", "m", "e", "n">>)
    @@ ("work blazer outfit" :> <<"w", "o", "r", "k", " ", "b", "l", "a", "z", "e", "r", " ", "o", "u", "t", "f", "i", "t">>)
    @@ ("business casual women" :> <<"b", "u", "s", "i", "n", "e", "s", "s", " ", "c", "a", "s", "u", "a", "l", " ", "w", "o", "m", "e", "n">>)
    @@ ("pencil skirt outfit" :> <<"p", "e", "n", "c", "i", "l", " ", "s", "k", "i", "r", "t", " ", "o", "u", "t", "f", "i", "t">>)
    @@ ("blazer dress" :> <<"b", "l", "a", "z", "e", "r", " ", "d", "r", "e", "s", "s">>)
    @@ ("tailored trousers" :> <<"t", "a", "i", "l", "o", "r", "e", "d", " ", "t", "r", "o", "u", "s", "e", "r", "s">>)
    @@ ("oversized blazer" :> <<"o", "v", "e", "r", "s", "i", "z", "e", "d", " ", "b", "l", "a", "z", "e", "r">>)
    @@ ("shirt dress" :> <<"s", "h", "i", "r", "t", " ", "d", "r", "e", "s", "s">>)
    @@ ("midi dress" :> <<"m", "i", "d", "i", " ", "d", "r", "e", "s", "s">>)
    @@ ("trench coat outfit" :> <<"t", "r", "e", "n", "c", "h", " ", "c", "o", "a", "t", " ", "o", "u", "t", "f", "i", "t">>)
    @@ ("minimalist outfit" :> <<"m", "i", "n", "i", "m", "a", "l", "i", "s", "t", " ", "o", "u", "t", "f", "i", "t">>)
    @@ ("quiet luxury fashion" :> <<"q", "u", "i", "e", "t", " ", "l", "u", "x", "u", "r", "y", " ", "f", "a", "s", "h", "i", "o", "n">>)
    @@ ("capsule wardrobe" :> <<"c", "a", "p", "s", "u", "l", "e", " ", "w", "a", "r", "d", "r", "o", "b", "e">>)
    @@ ("casual outfit women" :> <<"c", "a", "s", "u", "a", "l", " ", "o", "u", "t", "f", "i", "t", " ", "w", "o", "m", "e", "n">>)
    @@ ("weekend outfit" :> <<"w", "e", "e", "k", "e", "n", "d", " ", "o", "u", "t", "f", "i", "t">>)
    @@ ("mom jeans" :> <<"m", "o", "m", " ", "j", "e", "a", "n", "s">>)
    @@ ("wide leg jeans" :> <<"w", "i", "d", "e", " ", "l", "e", "g", " ", "j", "e", "a", "n", "s">>)
    @@ ("graphic tee outfit" :> <<"g", "r", "a", "p", "h", "i", "c", " ", "t", "e", "e", " ", "o", "u", "t", "f", "i", "t">>)
    @@ ("hoodie dress" :> <<"h", "o", "o", "d", "i", "e", " ", "d", "r", "e", "s", "s">>)
    @@ ("cargo pants women" :> <<"c", "a", "r", "g", "o", " ", "p", "a", "n", "t", "s", " ", "w", "o", "m", "e", "n">>)
    @@ ("striped shirt" :> <<"s", "t", "r", "i", "p", "e", "d", " ", "s", "h", "i", "r", "t">>)
    @@ ("denim skirt" :> <<"d", "e", "n", "i", "m", " ", "s", "k", "i", "r", "t">>)
    @@ ("bucket hat" :> <<"b", "u", "c", "k", "e", "t", " ", "h", "a", "t">>)
    @@ ("crossbody bag" :> <<"c", "r", "o", "s", "s", "b", "o", "d", "y", " ", "b", "a", "g">>)
    @@ ("oversized fit" :> <<"o", "v", "e", "r", "s", "i", "z", "e", "d", " ", "f", "i", "t">>)
    @@ ("street style fashion" :> <<"s", "t", "r", "e", "e", "t", " ", "s", "t", "y", "l", "e", " ", "f", "a", "s", "h", "i", "o", "n">>)
    @@ ("y2k fashion" :> <<"y", "2", "k", " ", "f", "a", "s", "h", "i", "o", "n">>)
    @@ ("date night outfit" :> <<"d", "a", "t", "e", " ", "n", "i", "g", "h", "t", " ", "o", "u", "t", "f", "i", "t">>)
    @@ ("slip dress" :> <<"s", "l", "i", "p", " ", "d", "r", "e", "s", "s">>)
    @@ ("satin dress" :> <<"s", "a", "t", "i", "n", " ", "d", "r", "e", "s", "s">>)
    @@ ("bodycon dress" :> <<"b", "o", "d", "y", "c", "o", "n", " ", "d", "r", "e", "s", "s">>)
    @@ ("corset top" :> <<"c", "o", "r", "s", "e", "t", " ", "t", "o", "p">>)
    @@ ("sheer top" :> <<"s", "h", "e", "e", "r", " ", "t", "o", "p">>)
    @@ ("halter top" :> <<"h", "a", "l", "t", "e", "r", " ", "t", "o", "p">>)
    @@ ("off shoulder top" :> <<"o", "f", "f", " ", "s", "h", "o", "u", "l", "d", "e", "r", " ", "t", "o", "p">>)
    @@ ("wrap dress" :> <<"w", "r", "a", "p", " ", "d", "r", "e", "s", "s">>)
    @@ ("gold jewelry" :> <<"g", "o", "l", "d", " ", "j", "e", "w", "e", "l", "r", "y">>)
    @@ ("chain bag" :> <<"c", "h", "a", "i", "n", " ", "b", "a", "g">>)
    @@ ("statement earrings" :> <<"s", "t", "a", "t", "e", "m", "e", "n", "t", " ", "e", "a", "r", "r", "i", "n", "g", "s">>)
    @@ ("birthday outfit women" :> <<"b", "i", "r", "t", "h", "d", "a", "y", " ", "o", "u", "t", "f", "i", "t", " ", "w", "o", "m", "e", "n">>)
    @@ ("party dress" :> <<"p", "a", "r", "t", "y", " ", "d", "r", "e", "s", "s">>)
    @@ ("sequin dress" :> <<"s", "e", "q", "u", "i", "n", " ", "d", "r", "e", "s", "s">>)
    @@ ("animal print" :> <<"a", "n", "i", "m", "a", "l", " ", "p", "r", "i", "n", "t">>)
    @@ ("platform shoes" :> <<"p", "l", "a", "t", "f", "o", "r", "m", " ", "s", "h", "o", "e", "s">>)
    @@ ("pearl necklace" :> <<"p", "e", "a", "r", "l", " ", "n", "e", "c", "k", "l", "a", "c", "e">>)
    @@ ("romper" :> <<"r", "o", "m", "p", "e", "r">>)
    @@ ("puff sleeve top" :> <<"p", "u", "f", "f", " ", "s", "l", "e", "e", "v", "e", " ", "t", "o", "p">>)
    @@ ("bridal gown" :> <<"b", "r", "i", "d", "a", "l", " ", "g", "o", "w", "n">>)
    @@ ("wedding dress bride" :> <<"w", "e", "d", "d", "i", "n", "g", " ", "d", "r", "e", "s", "s", " ", "b", "r", "i", "d", "e">>)
    @@ ("bride outfit" :> <<"b", "r", "i", "d", "e", " ", "o", "u", "t", "f", "i", "t">>)
    @@ ("bridal dress" :> <<"b", "r", "i", "d", "a", "l", " ", "d", "r", "e", "s", "s">>)
    @@ ("bridal wear" :> <<"b", "r", "i", "d", "a", "l", " ", "w", "e", "a", "r">>)
    @@ ("bride lehenga" :> <<"b", "r", "i", "d", "e", " ", "l", "e", "h", "e", "n", "g", "a">>)
    @@ ("bridal saree" :> <<"b", "r", "i", "d", "a", "l", " ", "s", "a", "r", "e", "e">>)
    @@ ("marriage dress" :> <<"m", "a", "r", "r", "i", "a", "g", "e", " ", "d", "r", "e", "s", "s">>)
    @@ ("bride jewelry" :> <<"b", "r", "i", "d", "e", " ", "j", "e", "w", "e", "l", "r", "y">>)
    @@ ("festival outfit" :> <<"f", "e", "s", "t", "i", "v", "a", "l", " ", "o", "u", "t", "f", "i", "t">>)
    @@ ("concert outfit" :> <<"c", "o", "n", "c", "e", "r", "t", " ", "o", "u", "t", "f", "i", "t">>)
    @@ ("coquette outfit" :> <<"c", "o", "q", "u", "e", "t", "t", "e", " ", "o", "u", "t", "f", "i", "t">>)
    @@ ("cottagecore dress" :> <<"c", "o", "t", "t", "a", "g", "e", "c", "o", "r", "e", " ", "d", "r", "e", "s", "s">>)
    @@ ("ballet core fashion" :> <<"b", "a", "l", "l", "e", "t", " ", "c", "o", "r", "e", " ", "f", "a", "s", "h", "i", "o", "n">>)
    @@ ("color block fashion" :> <<"c", "o", "l", "o", "r", " ", "b", "l", "o", "c", "k", " ", "f", "a", "s", "h", "i", "o", "n">>)
    @@ ("print mixing" :> <<"p", "r", "i", "n", "t", " ", "m", "i", "x", "i", "n", "g">>)
    @@ ("maxi skirt outfit" :> <<"m", "a", "x", "i", " ", "s", "k", "i", "r", "t", " ", "o", "u", "t", "f", "i", "t">>)
    @@ ("cropped jacket" :> <<"c", "r", "o", "p", "p", "e", "d", " ", "j", "a", "c", "k", "e", "t">>)
    @@ ("boho dress" :> <<"b", "o", "h", "o", " ", "d", "r", "e", "s", "s">>)
    @@ ("brunch outfit women" :> <<"b", "r", "u", "n", "c", "h", " ", "o", "u", "t", "f", "i", "t", " ", "w", "o", "m", "e", "n">>)
    @@ ("linen summer dress" :> <<"l", "i", "n", "e", "n", " ", "s", "u", "m", "m", "e", "r", " ", "d", "r", "e", "s", "s">>)
    @@ ("square neck top" :> <<"s", "q", "u", "a", "r", "e", " ", "n", "e", "c", "k", " ", "t", "o", "p">>)
    @@ ("tennis skirt" :> <<"t", "e", "n", "n", "i", "s", " ", "s", "k", "i", "r", "t">>)
    @@ ("cropped cardigan" :> <<"c", "r", "o", "p", "p", "e", "d", " ", "c", "a", "r", "d", "i", "g", "a", "n">>)
    @@ ("layered necklace outfit" :> <<"l", "a", "y", "e", "r", "e", "d", " ", "n", "e", "c", "k", "l", "a", "c", "e", " ", "o", "u", "t", "f", "i", "t">>)
    @@ ("coastal grandmother style" :> <<"c", "o", "a", "s", "t", "a", "l", " ", "g", "r", "a", "n", "d", "m", "o", "t", "h", "e", "r", " ", "s", "t", "y", "l", "e">>)
    @@ ("sundress outfit" :> <<"s", "u", "n", "d", "r", "e", "s", "s", " ", "o", "u", "t", "f", "i", "t">>)
    @@ ("vacation outfit women" :> <<"v", "a", "c", "a", "t", "i", "o", "n", " ", "o", "u", "t", "f", "i", "t", " ", "w", "o", "m", "e", "n">>)
    @@ ("resort wear women" :> <<"r", "e", "s", "o", "r", "t", " ", "w", "e", "a", "r", " ", "w", "o", "m", "e", "n">>)
    @@ ("beach outfit" :> <<"b", "e", "a", "c", "h", " ", "o", "u", "t", "f", "i", "t">>)
    @@ ("wide leg pants" :> <<"w", "i", "d", "e", " ", "l", "e", "g", " ", "p", "a", "n", "t", "s">>)
    @@ ("maxi dress" :> <<"m", "a", "x", "i", " ", "d", "r", "e", "s", "s">>)
    @@ ("summer dress outfit" :> <<"s", "u", "m", "m", "e", "r", " ", "d", "r", "e", "s", "s", " ", "o", "u", "t", "f", "i", "t">>)
    @@ ("athleisure outfit" :> <<"a", "t", "h", "l", "e", "i", "s", "u", "r", "e", " ", "o", "u", "t", "f", "i", "t">>)
    @@ ("joggers outfit" :> <<"j", "o", "g", "g", "e", "r", "s", " ", "o", "u", "t", "f", "i", "t">>)
    @@ ("gym outfit women" :> <<"g", "y", "m", " ", "o", "u", "t", "f", "i", "t", " ", "w", "o", "m", "e", "n">>)
    @@ ("leggings outfit" :> <<"l", "e", "g", "g", "i", "n", "g", "s", " ", "o", "u", "t", "f", "i", "t">>)
    @@ ("sports bra outfit" :> <<"s", "p", "o", "r", "t", "s", " ", "b", "r", "a", " ", "o", "u", "t", "f", "i", "t">>)
    @@ ("workout outfit" :> <<"w", "o", "r", "k", "o", "u", "t", " ", "o", "u", "t", "f", "i", "t">>)
    @@ ("formal outfit women" :> <<"f", "o", "r", "m", "a", "l", " ", "o", "u", "t", "f", "i", "t", " ", "w", "o", "m", "e", "n">>)
    @@ ("gala dress" :> <<"g", "a", "l", "a", " ", "d", "r", "e", "s", "s">>)
    @@ ("cocktail dress" :> <<"c", "o", "c", "k", "t", "a", "i", "l", " ", "d", "r", "e", "s", "s">>)
    @@ ("vest outfit" :> <<"v", "e", "s", "t", " ", "o", "u", "t", "f", "i", "t">>)
    @@ ("monochrome outfit" :> <<"m", "o", "n", "o", "c", "h", "r", "o", "m", "e", " ", "o", "u", "t", "f", "i", "t">>)
    @@ ("leather jacket" :> <<"l", "e", "a", "t", "h", "e", "r", " ", "j", "a", "c", "k", "e", "t">>)
    @@ ("mary jane shoes" :> <<"m", "a", "r", "y", " ", "j", "a", "n", "e", " ", "s", "h", "o", "e", "s">>)
    @@ ("sustainable fashion" :> <<"s", "u", "s", "t", "a", "i", "n", "a", "b", "l", "e", " ", "f", "a", "s", "h", "i", "o", "n">>)
    @@ ("neutral tone outfit" :> <<"n", "e", "u", "t", "r", "a", "l", " ", "t", "o", "n", "e", " ", "o", "u", "t", "f", "i", "t">>)
    @@ ("straight leg jeans" :> <<"s", "t", "r", "a", "i", "g", "h", "t", " ", "l", "e", "g", " ", "j", "e", "a", "n", "s">>)
    @@ ("cargo skirt" :> <<"c", "a", "r", "g", "o", " ", "s", "k", "i", "r", "t">>)
    @@ ("ribbed knit" :> <<"r", "i", "b", "b", "e", "d", " ", "k", "n", "i", "t">>)
    @@ ("knit sweater" :> <<"k", "n", "i", "t", " ", "s", "w", "e", "a", "t", "e", "r">>)
    @@ ("bomber jacket" :> <<"b", "o", "m", "b", "e", "r", " ", "j", "a", "c", "k", "e", "t">>)
    @@ ("cold shoulder top" :> <<"c", "o", "l", "d", " ", "s", "h", "o", "u", "l", "d", "e", "r", " ", "t", "o", "p">>)
    @@ ("trending outfits 2025" :> <<"t", "r", "e", "n", "d", "i", "n", "g", " ", "o", "u", "t", "f", "i", "t", "s", " ", "2", "0", "2", "5">>)
    @@ ("minimalist fashion" :> <<"m", "i", "n", "i", "m", "a", "l", "i", "s", "t", " ", "f", "a", "s", "h", "i", "o", "n">>)
    @@ ("Bridal Gown" :> <<"B", "r", "i", "d", "a", "l", " ", "G", "o", "w", "n">>)
    @@ ("Party Dress" :> <<"P", "a", "r", "t", "y", " ", "D", "r", "e", "s", "s">>)
    @@ ("Midi Dress" :> <<"M", "i", "d", "i", " ", "D", "r", "e", "s", "s">>)
    @@ ("bridal party dress" :> <<"b", "r", "i", "d", "a", "l", " ", "p", "a", "r", "t", "y", " ", "d", "r", "e", "s", "s">>)
    @@ ("bride party look" :> <<"b", "r", "i", "d", "e", " ", "p", "a", "r", "t", "y", " ", "l", "o", "o", "k">>)
    @@ ("marriage party wear" :> <<"m", "a", "r", "r", "i", "a", "g", "e", " ", "p", "a", "r", "t", "y", " ", "w", "e", "a", "r">>)
    @@ ("Bridal Party" :> <<"B", "r", "i", "d", "a", "l", " ", "P", "a", "r", "t", "y">>)
    @@ ("office party" :> <<"o", "f", "f", "i", "c", "e", " ", "p", "a", "r", "t", "y">>)
    @@ ("sport bridal" :> <<"s", "p", "o", "r", "t", " ", "b", "r", "i", "d", "a", "l">>)
    @@ ("blazer bride" :> <<"b", "l", "a", "z", "e", "r", " ", "b", "r", "i", "d", "e">>)
    @@ ("party top" :> <<"p", "a", "r", "t", "y", " ", "t", "o", "p">>)
    @@ ("glitter heels" :> <<"g", "l", "i", "t", "t", "e", "r", " ", "h", "e", "e", "l", "s">>)
    @@ ("sequin bridal lehenga" :> <<"s", "e", "q", "u", "i", "n", " ", "b", "r", "i", "d", "a", "l", " ", "l", "e", "h", "e", "n", "g", "a">>)
    @@ ("lehenga set" :> <<"l", "e", "h", "e", "n", "g", "a", " ", "s", "e", "t">>)
    @@ ("silk saree" :> <<"s", "i", "l", "k", " ", "s", "a", "r", "e", "e">>)
    @@ ("elegant gown" :> <<"e", "l", "e", "g", "a", "n", "t", " ", "g", "o", "w", "n">>)
    @@ ("formal beach wear" :> <<"f", "o", "r", "m", "a", "l", " ", "b", "e", "a", "c", "h", " ", "w", "e", "a", "r">>)
    @@ ("resort brunch" :> <<"r", "e", "s", "o", "r", "t", " ", "b", "r", "u", "n", "c", "h">>)
    @@ ("sunday cafe" :> <<"s", "u", "n", "d", "a", "y", " ", "c", "a", "f", "e">>)
    @@ ("boho date" :> <<"b", "o", "h", "o", " ", "d", "a", "t", "e">>)
    @@ ("dinner look" :> <<"d", "i", "n", "n", "e", "r", " ", "l", "o", "o", "k">>)
    @@ ("night festival" :> <<"n", "i", "g", "h", "t", " ", "f", "e", "s", "t", "i", "v", "a", "l">>)
    @@ ("concert tee" :> <<"c", "o", "n", "c", "e", "r", "t", " ", "t", "e", "e">>)
    @@ ("plain tee" :> <<"p", "l", "a", "i", "n", " ", "t", "e", "e">>)
    @@ ("update look" :> <<"u", "p", "d", "a", "t", "e", " ", "l", "o", "o", "k">>)
    @@ ("summer coat" :> <<"s", "u", "m", "m", "e", "r", " ", "c", "o", "a", "t">>)
    @@ ("wool sundress" :> <<"w", "o", "o", "l", " ", "s", "u", "n", "d", "r", "e", "s", "s">>)
    @@ ("floral sweater" :> <<"f", "l", "o", "r", "a", "l", " ", "s", "w", "e", "a", "t", "e", "r">>)
    @@ ("autumn pastel" :> <<"a", "u", "t", "u", "m", "n", " ", "p", "a", "s", "t", "e", "l">>)
    @@ ("plaid boots" :> <<"p", "l", "a", "i", "d", " ", "b", "o", "o", "t", "s">>)
    @@ ("lightweight jacket" :> <<"l", "i", "g", "h", "t", "w", "e", "i", "g", "h", "t", " ", "j", "a", "c", "k", "e", "t">>)
    @@ ("spring fall mix" :> <<"s", "p", "r", "i", "n", "g", " ", "f", "a", "l", "l", " ", "m", "i", "x">>)
    @@ ("Winter Coat" :> <<"W", "i", "n", "t", "e", "r", " ", "C", "o", "a", "t">>)
    @@ ("denim" :> <<"d", "e", "n", "i", "m">>)
    @@ ("athleisure party" :> <<"a", "t", "h", "l", "e", "i", "s", "u", "r", "e", " ", "p", "a", "r", "t", "y">>)
    @@ ("bridal party" :> <<"b", "r", "i", "d", "a", "l", " ", "p", "a", "r", "t", "y">>)
    @@ ("winter coat" :> <<"w", "i", "n", "t", "e", "r", " ", "c", "o", "a", "t">>)
    @@ ("blazer" :> <<"b", "l", "a", "z", "e", "r">>)
    @@ ("trousers" :> <<"t", "r", "o", "u", "s", "e", "r", "s">>)
    @@ ("office" :> <<"o", "f", "f", "i", "c", "e">>)
    @@ ("jogger" :> <<"j", "o", "g", "g", "e", "r">>)
    @@ ("athleisure" :> <<"a", "t", "h", "l", "e", "i", "s", "u", "r", "e">>)
    @@ ("sport" :> <<"s", "p", "o", "r", "t">>)
    @@ ("party" :> <<"p", "a", "r", "t", "y">>)
    @@ ("sequin" :> <<"s", "e", "q", "u", "i", "n">>)
    @@ ("glitter" :> <<"g", "l", "i", "t", "t", "e", "r">>)
    @@ ("bridal" :> <<"b", "r", "i", "d", "a", "l">>)
    @@ ("bride" :> <<"b", "r", "i", "d", "e">>)
    @@ ("marriage" :> <<"m", "a", "r", "r", "i", "a", "g", "e">>)
    @@ ("lehenga" :> <<"l", "e", "h", "e", "n", "g", "a">>)
    @@ ("saree" :> <<"s", "a", "r", "e", "e">>)
    @@ ("formal" :> <<"f", "o", "r", "m", "a", "l">>)
    @@ ("elegant" :> <<"e", "l", "e", "g", "a", "n", "t">>)
    @@ ("beach" :> <<"b", "e", "a", "c", "h">>)
    @@ ("vacation" :> <<"v", "a", "c", "a", "t", "i", "o", "n">>)
    @@ ("resort" :> <<"r", "e", "s", "o", "r", "t">>)
    @@ ("brunch" :> <<"b", "r", "u", "n", "c", "h">>)
    @@ ("cafe" :> <<"c", "a", "f", "e">>)
    @@ ("sunday" :> <<"s", "u", "n", "d", "a", "y">>)
    @@ ("festival" :> <<"f", "e", "s", "t", "i", "v", "a", "l">>)
    @@ ("concert" :> <<"c", "o", "n", "c", "e", "r", "t">>)
    @@ ("boho" :> <<"b", "o", "h", "o">>)
    @@ ("date" :> <<"d", "a", "t", "e">>)
    @@ ("night" :> <<"n", "i", "g", "h", "t">>)
    @@ ("dinner" :> <<"d", "i", "n", "n", "e", "r">>)
    @@ ("summer" :> <<"s", "u", "m", "m", "e", "r">>)
    @@ ("linen" :> <<"l", "i", "n", "e", "n">>)
    @@ ("sundress" :> <<"s", "u", "n", "d", "r", "e", "s", "s">>)
    @@ ("winter" :> <<"w", "i", "n", "t", "e", "r">>)
    @@ ("coat" :> <<"c", "o", "a", "t">>)
    @@ ("wool" :> <<"w", "o", "o", "l">>)
    @@ ("layered" :> <<"l", "a", "y", "e", "r", "e", "d">>)
    @@ ("boots" :> <<"b", "o", "o", "t", "s">>)
    @@ ("fall" :> <<"f", "a", "l", "l">>)
    @@ ("autumn" :> <<"a", "u", "t", "u", "m", "n">>)
    @@ ("sweater" :> <<"s", "w", "e", "a", "t", "e", "r">>)
    @@ ("jacket" :> <<"j", "a", "c", "k", "e", "t">>)
    @@ ("plaid" :> <<"p", "l", "a", "i", "d">>)
    @@ ("spring" :> <<"s", "p", "r", "i", "n", "g">>)
    @@ ("floral" :> <<"f", "l", "o", "r", "a", "l">>)
    @@ ("pastel" :> <<"p", "a", "s", "t", "e", "l">>)
    @@ ("light" :> <<"l", "i", "g", "h", "t">>)

UpperToLower ==
       ("A" :> "a") @@ ("B" :> "b") @@ ("C" :> "c") @@ ("D" :> "d") @@ ("E" :> "e") @@ ("F" :> "f")
    @@ ("G" :> "g") @@ ("H" :> "h") @@ ("I" :> "i") @@ ("J" :> "j") @@ ("K" :> "k") @@ ("L" :> "l")
    @@ ("M" :> "m") @@ ("N" :> "n") @@ ("O" :> "o") @@ ("P" :> "p") @@ ("Q" :> "q") @@ ("R" :> "r")
    @@ ("S" :> "s") @@ ("T" :> "t") @@ ("U" :> "u") @@ ("V" :> "v") @@ ("W" :> "w") @@ ("X" :> "x")
    @@ ("Y" :> "y") @@ ("Z" :> "z")

LowerChar(c) == IF c \in DOMAIN UpperToLower THEN UpperToLower[c] ELSE c

\* the string with the given characters
StringOf(cs) == CHOOSE s \in DOMAIN Chars : Chars[s] = cs

\* String.prototype.toLowerCase
toLowerCase(s) == StringOf([i \in 1..Len(Chars[s]) |-> LowerChar(Chars[s][i])])

\* String.prototype.includes: t occurs in s as a substring
includes(s, t) ==
    LET cs == Chars[s]
        ct == Chars[t]
    IN  \E i \in 0..(Len(cs) - Len(ct)) : SubSeq(cs, i + 1, i + Len(ct)) = ct

(***************************************************************************)
(* generateTrends.js: KEYWORDS, SEASON_KEYWORDS, OCCASION_MAP               *)
(***************************************************************************)
KEYWORDS == <<
    "office outfit women",
    "work blazer outfit",
    "business casual women",
    "pencil skirt outfit",
    "blazer dress",
    "tailored trousers",
    "oversized blazer",
    "shirt dress",
    "midi dress",
    "trench coat outfit",
    "minimalist outfit",
    "quiet luxury fashion",
    "capsule wardrobe",
    "casual outfit women",
    "weekend outfit",
    "mom jeans",
    "wide leg jeans",
    "graphic tee outfit",
    "hoodie dress",
    "cargo pants women",
    "striped shirt",
    "denim skirt",
    "bucket hat",
    "crossbody bag",
    "oversized fit",
    "street style fashion",
    "y2k fashion",
    "date night outfit",
    "slip dress",
    "satin dress",
    "bodycon dress",
    "corset top",
    "sheer top",
    "halter top",
    "off shoulder top",
    "wrap dress",
    "gold jewelry",
    "chain bag",
    "statement earrings",
    "birthday outfit women",
    "party dress",
    "sequin dress",
    "animal print",
    "platform shoes",
    "pearl necklace",
    "romper",
    "puff sleeve top",
    "bridal gown",
    "wedding dress bride",
    "bride outfit",
    "bridal dress",
    "bridal wear",
    "bride lehenga",
    "bridal saree",
    "marriage dress",
    "bride jewelry",
    "festival outfit",
    "concert outfit",
    "coquette outfit",
    "cottagecore dress",
    "ballet core fashion",
    "color block fashion",
    "print mixing",
    "maxi skirt outfit",
    "cropped jacket",
    "boho dress",
    "brunch outfit women",
    "linen summer dress",
    "square neck top",
    "tennis skirt",
    "cropped cardigan",
    "layered necklace outfit",
    "coastal grandmother style",
    "sundress outfit",
    "vacation outfit women",
    "resort wear women",
    "beach outfit",
    "wide leg pants",
    "maxi dress",
    "summer dress outfit",
    "athleisure outfit",
    "joggers outfit",
    "gym outfit women",
    "leggings outfit",
    "sports bra outfit",
    "workout outfit",
    "formal outfit women",
    "gala dress",
    "cocktail dress",
    "vest outfit",
    "monochrome outfit",
    "leather jacket",
    "mary jane shoes",
    "sustainable fashion",
    "neutral tone outfit",
    "straight leg jeans",
    "cargo skirt",
    "ribbed knit",
    "knit sweater",
    "bomber jacket",
    "cold shoulder top",
    "trending outfits 2025",
    "minimalist fashion"
>>

SEASON_KEYWORDS == <<
    [season |-> "summer", terms |-> <<"summer", "linen", "sundress", "beach", "resort">>],
    [season |-> "winter", terms |-> <<"winter", "coat", "wool", "layered", "boots">>],
    [season |-> "fall", terms |-> <<"fall", "autumn", "sweater", "jacket", "plaid">>],
    [season |-> "spring", terms |-> <<"spring", "floral", "pastel", "light">>]
>>

OCCASION_MAP ==
       ("office outfit women" :> "work and office")
    @@ ("work blazer outfit" :> "work and office")
    @@ ("business casual women" :> "work and office")
    @@ ("pencil skirt outfit" :> "work and office")
    @@ ("blazer dress" :> "work and office")
    @@ ("tailored trousers" :> "work and office")
    @@ ("oversized blazer" :> "work and office")
    @@ ("shirt dress" :> "work and office")
    @@ ("midi dress" :> "work and office")
    @@ ("trench coat outfit" :> "work and office")
    @@ ("minimalist outfit" :> "work and office")
    @@ ("quiet luxury fashion" :> "work and office")
    @@ ("capsule wardrobe" :> "work and office")
    @@ ("casual outfit women" :> "casual")
    @@ ("weekend outfit" :> "casual")
    @@ ("mom jeans" :> "casual")
    @@ ("wide leg jeans" :> "casual")
    @@ ("graphic tee outfit" :> "casual")
    @@ ("hoodie dress" :> "casual")
    @@ ("cargo pants women" :> "casual")
    @@ ("striped shirt" :> "casual")
    @@ ("denim skirt" :> "casual")
    @@ ("bucket hat" :> "casual")
    @@ ("crossbody bag" :> "casual")
    @@ ("oversized fit" :> "casual")
    @@ ("street style fashion" :> "casual")
    @@ ("y2k fashion" :> "casual")
    @@ ("straight leg jeans" :> "casual")
    @@ ("cargo skirt" :> "casual")
    @@ ("cold shoulder top" :> "casual")
    @@ ("date night outfit" :> "date night")
    @@ ("slip dress" :> "date night")
    @@ ("satin dress" :> "date night")
    @@ ("bodycon dress" :> "date night")
    @@ ("corset top" :> "date night")
    @@ ("sheer top" :> "date night")
    @@ ("halter top" :> "date night")
    @@ ("off shoulder top" :> "date night")
    @@ ("wrap dress" :> "date night")
    @@ ("gold jewelry" :> "date night")
    @@ ("chain bag" :> "date night")
    @@ ("statement earrings" :> "date night")
    @@ ("birthday outfit women" :> "birthday party")
    @@ ("party dress" :> "birthday party")
    @@ ("sequin dress" :> "birthday party")
    @@ ("animal print" :> "birthday party")
    @@ ("platform shoes" :> "birthday party")
    @@ ("pearl necklace" :> "birthday party")
    @@ ("romper" :> "birthday party")
    @@ ("puff sleeve top" :> "birthday party")
    @@ ("bridal gown" :> "marriage and bride")
    @@ ("wedding dress bride" :> "marriage and bride")
    @@ ("bride outfit" :> "marriage and bride")
    @@ ("bridal dress" :> "marriage and bride")
    @@ ("bridal wear" :> "marriage and bride")
    @@ ("bride lehenga" :> "marriage and bride")
    @@ ("bridal saree" :> "marriage and bride")
    @@ ("marriage dress" :> "marriage and bride")
    @@ ("bride jewelry" :> "marriage and bride")
    @@ ("festival outfit" :> "festivals and events")
    @@ ("concert outfit" :> "festivals and events")
    @@ ("coquette outfit" :> "festivals and events")
    @@ ("cottagecore dress" :> "festivals and events")
    @@ ("ballet core fashion" :> "festivals and events")
    @@ ("color block fashion" :> "festivals and events")
    @@ ("print mixing" :> "festivals and events")
    @@ ("maxi skirt outfit" :> "festivals and events")
    @@ ("cropped jacket" :> "festivals and events")
    @@ ("boho dress" :> "festivals and events")
    @@ ("brunch outfit women" :> "brunch and cafes")
    @@ ("linen summer dress" :> "brunch and cafes")
    @@ ("square neck top" :> "brunch and cafes")
    @@ ("tennis skirt" :> "brunch and cafes")
    @@ ("cropped cardigan" :> "brunch and cafes")
    @@ ("layered necklace outfit" :> "brunch and cafes")
    @@ ("coastal grandmother style" :> "brunch and cafes")
    @@ ("sundress outfit" :> "brunch and cafes")
    @@ ("vacation outfit women" :> "vacation")
    @@ ("resort wear women" :> "vacation")
    @@ ("beach outfit" :> "vacation")
    @@ ("wide leg pants" :> "vacation")
    @@ ("maxi dress" :> "vacation")
    @@ ("summer dress outfit" :> "vacation")
    @@ ("athleisure outfit" :> "gym and athleisure")
    @@ ("joggers outfit" :> "gym and athleisure")
    @@ ("gym outfit women" :> "gym and athleisure")
    @@ ("leggings outfit" :> "gym and athleisure")
    @@ ("sports bra outfit" :> "gym and athleisure")
    @@ ("workout outfit" :> "gym and athleisure")
    @@ ("formal outfit women" :> "formal events")
    @@ ("gala dress" :> "formal events")
    @@ ("cocktail dress" :> "formal events")
    @@ ("vest outfit" :> "formal events")
    @@ ("monochrome outfit" :> "formal events")
    @@ ("leather jacket" :> "formal events")
    @@ ("mary jane shoes" :> "formal events")
    @@ ("sustainable fashion" :> "casual")
    @@ ("neutral tone outfit" :> "work and office")
    @@ ("ribbed knit" :> "casual")
    @@ ("knit sweater" :> "casual")
    @@ ("bomber jacket" :> "casual")
    @@ ("trending outfits 2025" :> "casual")
    @@ ("minimalist fashion" :> "work and office")

(***************************************************************************)
(* node-trends-api: config/keywords.js, trendFormatter.js SEASON_KEYWORDS   *)
(***************************************************************************)
Api_keywords == <<
    "coquette outfit",
    "quiet luxury fashion",
    "cargo pants women",
    "linen summer dress",
    "minimalist outfit",
    "street style fashion",
    "oversized blazer",
    "wide leg jeans",
    "cottagecore dress",
    "y2k fashion",
    "athleisure outfit",
    "neutral tone outfit",
    "maxi skirt outfit",
    "blazer dress",
    "layered necklace outfit"
>>

Formatter_SEASON_KEYWORDS == <<
    [season |-> "summer", terms |-> <<"summer", "linen", "sundress", "beach", "resort">>],
    [season |-> "winter", terms |-> <<"winter", "coat", "wool", "layered", "boots">>],
    [season |-> "fall", terms |-> <<"fall", "autumn", "sweater", "jacket", "plaid">>],
    [season |-> "spring", terms |-> <<"spring", "floral", "pastel", "light">>]
>>

\* the keywords the classifier is exercised on: KEYWORDS and others, in both cases
ClassifierInputs == {
    "office outfit women", "work blazer outfit", "business casual women", "pencil skirt outfit",
    "blazer dress", "tailored trousers", "oversized blazer", "shirt dress",
    "midi dress", "trench coat outfit", "minimalist outfit", "quiet luxury fashion",
    "capsule wardrobe", "casual outfit women", "weekend outfit", "mom jeans",
    "wide leg jeans", "graphic tee outfit", "hoodie dress", "cargo pants women",
    "striped shirt", "denim skirt", "bucket hat", "crossbody bag",
    "oversized fit", "street style fashion", "y2k fashion", "date night outfit",
    "slip dress", "satin dress", "bodycon dress", "corset top",
    "sheer top", "halter top", "off shoulder top", "wrap dress",
    "gold jewelry", "chain bag", "statement earrings", "birthday outfit women",
    "party dress", "sequin dress", "animal print", "platform shoes",
    "pearl necklace", "romper", "puff sleeve top", "bridal gown",
    "wedding dress bride", "bride outfit", "bridal dress", "bridal wear",
    "bride lehenga", "bridal saree", "marriage dress", "bride jewelry",
    "festival outfit", "concert outfit", "coquette outfit", "cottagecore dress",
    "ballet core fashion", "color block fashion", "print mixing", "maxi skirt outfit",
    "cropped jacket", "boho dress", "brunch outfit women", "linen summer dress",
    "square neck top", "tennis skirt", "cropped cardigan", "layered necklace outfit",
    "coastal grandmother style", "sundress outfit", "vacation outfit women", "resort wear women",
    "beach outfit", "wide leg pants", "maxi dress", "summer dress outfit",
    "athleisure outfit", "joggers outfit", "gym outfit women", "leggings outfit",
    "sports bra outfit", "workout outfit", "formal outfit women", "gala dress",
    "cocktail dress", "vest outfit", "monochrome outfit", "leather jacket",
    "mary jane shoes", "sustainable fashion", "neutral tone outfit", "straight leg jeans",
    "cargo skirt", "ribbed knit", "knit sweater", "bomber jacket",
    "cold shoulder top", "trending outfits 2025", "minimalist fashion", "Bridal Gown",
    "Party Dress", "Midi Dress", "bridal party dress", "bride party look",
    "marriage party wear", "Bridal Party", "office party", "sport bridal",
    "blazer bride", "party top", "glitter heels", "sequin bridal lehenga",
    "lehenga set", "silk saree", "elegant gown", "formal beach wear",
    "resort brunch", "sunday cafe", "boho date", "dinner look",
    "night festival", "concert tee", "plain tee", "update look",
    "summer coat", "wool sundress", "floral sweater", "autumn pastel",
    "plaid boots", "lightweight jacket", "spring fall mix", "Winter Coat",
    "denim", "athleisure party", "bridal party", "winter coat"
}

(***************************************************************************)
(* generateTrends.js: getOccasion, getSeason                               *)
(***************************************************************************)
\* mutant: the table is looked up with the keyword as given, not lowercased
getOccasion_caseSensitive(keyword) ==
    LET lower == toLowerCase(keyword)
    IN  IF keyword \in DOMAIN OCCASION_MAP THEN OCCASION_MAP[keyword]
        ELSE IF includes(lower, "blazer") \/ includes(lower, "trousers") \/ includes(lower, "office")
          THEN "work and office"
        ELSE IF includes(lower, "jogger") \/ includes(lower, "athleisure") \/ includes(lower, "sport")
          THEN "gym and athleisure"
        ELSE IF includes(lower, "party") \/ includes(lower, "sequin") \/ includes(lower, "glitter")
          THEN "birthday party"
        ELSE IF includes(lower, "bridal") \/ includes(lower, "bride") \/ includes(lower, "marriage")
                \/ includes(lower, "lehenga") \/ includes(lower, "saree")
          THEN "marriage and bride"
        ELSE IF includes(lower, "formal") \/ includes(lower, "elegant")
          THEN "formal events"
        ELSE IF includes(lower, "beach") \/ includes(lower, "vacation") \/ includes(lower, "resort")
          THEN "vacation"
        ELSE IF includes(lower, "brunch") \/ includes(lower, "cafe") \/ includes(lower, "sunday")
          THEN "brunch and cafes"
        ELSE IF includes(lower, "festival") \/ includes(lower, "concert") \/ includes(lower, "boho")
          THEN "festivals and events"
        ELSE IF includes(lower, "date") \/ includes(lower, "night") \/ includes(lower, "dinner")
          THEN "date night"
        ELSE "casual"

getOccasion(keyword) ==
    LET lower == toLowerCase(keyword)
    IN  IF lower \in DOMAIN OCCASION_MAP THEN OCCASION_MAP[lower]
        ELSE IF includes(lower, "blazer") \/ includes(lower, "trousers") \/ includes(lower, "office")
          THEN "work and office"
        ELSE IF includes(lower, "jogger") \/ includes(lower, "athleisure") \/ includes(lower, "sport")
          THEN "gym and athleisure"
        ELSE IF includes(lower, "party") \/ includes(lower, "sequin") \/ includes(lower, "glitter")
          THEN "birthday party"
        ELSE IF includes(lower, "bridal") \/ includes(lower, "bride") \/ includes(lower, "marriage")
                \/ includes(lower, "lehenga") \/ includes(lower, "saree")
          THEN "marriage and bride"
        ELSE IF includes(lower, "formal") \/ includes(lower, "elegant")
          THEN "formal events"
        ELSE IF includes(lower, "beach") \/ includes(lower, "vacation") \/ includes(lower, "resort")
          THEN "vacation"
        ELSE IF includes(lower, "brunch") \/ includes(lower, "cafe") \/ includes(lower, "sunday")
          THEN "brunch and cafes"
        ELSE IF includes(lower, "festival") \/ includes(lower, "concert") \/ includes(lower, "boho")
          THEN "festivals and events"
        ELSE IF includes(lower, "date") \/ includes(lower, "night") \/ includes(lower, "dinner")
          THEN "date night"
        ELSE "casual"

\* the calendar fallback of getSeason; month is Date.getMonth(), 0..11
SeasonOfMonth(month) ==
    IF month >= 2 /\ month <= 4 THEN "spring"
    ELSE IF month >= 5 /\ month <= 7 THEN "summer"
    ELSE IF month >= 8 /\ month <= 10 THEN "fall"
    ELSE "winter"

\* the for-of loop over Object.entries(table): the first entry with a matching term
FirstSeason(table, lower) ==
    LET hits == {i \in 1..Len(table) :
                    \E j \in 1..Len(table[i].terms) : includes(lower, table[i].terms[j])}
    IN  IF hits = {} THEN "none"
        ELSE table[CHOOSE i \in hits : \A h \in hits : i <= h].season

getSeason(keyword, month) ==
    LET lower == toLowerCase(keyword)
        found == FirstSeason(SEASON_KEYWORDS, lower)
    IN  IF found # "none" THEN found ELSE SeasonOfMonth(month)

(***************************************************************************)
(* trendFormatter.js: getSeason                                            *)
(***************************************************************************)
\* mutant: the month ranges are read as 1-indexed months
Formatter_SeasonOfMonth_oneIndexed(month) ==
    IF month >= 3 /\ month <= 5 THEN "spring"
    ELSE IF month >= 6 /\ month <= 8 THEN "summer"
    ELSE IF month >= 9 /\ month <= 11 THEN "fall"
    ELSE "winter"

Formatter_SeasonOfMonth(month) ==
    IF month >= 2 /\ month <= 4 THEN "spring"
    ELSE IF month >= 5 /\ month <= 7 THEN "summer"
    ELSE IF month >= 8 /\ month <= 10 THEN "fall"
    ELSE "winter"

Formatter_getSeason(keyword, month) ==
    LET lower == toLowerCase(keyword)
        found == FirstSeason(Formatter_SEASON_KEYWORDS, lower)
    IN  IF found # "none" THEN found ELSE Formatter_SeasonOfMonth(month)

(***************************************************************************)
(* generateTrends.js: getWhyTrending (the sentence is modelled by its      *)
(* template and the keyword it interpolates)                               *)
(***************************************************************************)
\* bands that open above 70 and above 40
getWhyTrending_openBands(keyword, score) ==
    IF score > 70 THEN [template |-> "Strong", keyword |-> keyword]
    ELSE IF score > 40 THEN [template |-> "Growing", keyword |-> keyword]
    ELSE [template |-> "Steady", keyword |-> keyword]

getWhyTrending(keyword, score) ==
    IF score >= 70 THEN [template |-> "Strong", keyword |-> keyword]
    ELSE IF score >= 40 THEN [template |-> "Growing", keyword |-> keyword]
    ELSE [template |-> "Steady", keyword |-> keyword]

(***************************************************************************)
(* trendFormatter.js: getWhyTrending                                       *)
(***************************************************************************)
Formatter_getWhyTrending(keyword, score) ==
    IF score >= 70 THEN [template |-> "Strong", keyword |-> keyword]
    ELSE IF score >= 40 THEN [template |-> "Growing", keyword |-> keyword]
    ELSE [template |-> "Steady", keyword |-> keyword]

(***************************************************************************)
(* Array.prototype.sort with the comparator (a, b) => b.score - a.score:   *)
(* a stable sort (ECMAScript 2019), here by insertion.                     *)
(***************************************************************************)
\* an insertion that puts a candidate before those of equal score
RECURSIVE InsertByScore_tiesFirst(_, _)
InsertByScore_tiesFirst(sorted, x) ==
    IF sorted = <<>> THEN <<x>>
    ELSE IF Head(sorted).score - x.score <= 0
      THEN <<x>> \o sorted
      ELSE <<Head(sorted)>> \o InsertByScore_tiesFirst(Tail(sorted), x)

RECURSIVE InsertByScore(_, _)
InsertByScore(sorted, x) ==
    IF sorted = <<>> THEN <<x>>
    ELSE IF Head(sorted).score - x.score < 0
      THEN <<x>> \o sorted
      ELSE <<Head(sorted)>> \o InsertByScore(Tail(sorted), x)

RECURSIVE SortByScoreDesc(_)
SortByScoreDesc(seq) ==
    IF seq = <<>> THEN <<>>
    ELSE InsertByScore(SortByScoreDesc(SubSeq(seq, 1, Len(seq) - 1)), seq[Len(seq)])

Slice(seq, from, to) == SubSeq(seq, from + 1, IF to < Len(seq) THEN to ELSE Len(seq))


(***************************************************************************)
(* generateTrends.js: configuration                                        *)
(***************************************************************************)
BATCH_SIZE == 8

PLACEHOLDER_KEY == "your_unsplash_access_key_here"

GUARANTEED_IMAGE_QUERIES == <<
    "women fashion outfit", "women street style fashion",
    "women clothing style", "womenswear outfit style"
>>

\* an environment variable is "" when unset; Number(process.env.X) of a set one is
\* modelled by the number it holds, NaN when it holds no number
EnvNumber(raw) == IF raw.set THEN raw.number ELSE NaN

\* Math.min(5, Math.max(3, Number(process.env.IMAGES_PER_TREND) || 4))
ImagesPerTrend(raw) ==
    LET n == EnvNumber(raw)
        orFour == IF IsNaN(n) \/ n = Zero THEN Num(4, 1) ELSE n
    IN  MathMin(Num(5, 1), MathMax(Num(3, 1), orFour))

\* process.env.UNSPLASH_ACCESS_KEY || ''
Gen_accessKey(envKey) == envKey

(***************************************************************************)
(* generateTrends.js: fetchImagesForQuery.  An answer of the image         *)
(* provider to one request:                                                *)
(*   kind "reject"  fetch() rejects (network failure)                      *)
(*   kind "status"  a response that is not ok, with its status             *)
(*   kind "ok"      an ok response; readable = FALSE when res.json()       *)
(*                  rejects, otherwise results holds data.results          *)
(* A photo is the record of its urls, "" for a missing one.                *)
(***************************************************************************)
Photo(regular, small, thumb) == [regular |-> regular, small |-> small, thumb |-> thumb]

\* p.urls?.regular || p.urls?.small || p.urls?.thumb
PhotoUrl(p) ==
    IF p.regular # "" THEN p.regular ELSE IF p.small # "" THEN p.small ELSE p.thumb

\* results.slice(0, count).map(...).filter(Boolean)
\* (slice takes the whole part of count)
UrlsOf(results, count) ==
    SelectSeq([j \in 1..Len(Slice(results, 0, Floor(count))) |-> PhotoUrl(results[j])],
              LAMBDA u : u # "")

KeyDisabled(accessKey) == accessKey = "" \/ accessKey = PLACEHOLDER_KEY

\* a fetchImagesForQuery that retries after any non-OK status
Gen_onImageAnswer_retryAnyStatus(ans, count, retried) ==
    IF ans.kind = "reject" THEN [kind |-> "throw", urls |-> <<>>]
    ELSE IF ans.kind = "status"
      THEN IF ~retried
             THEN [kind |-> "retry", urls |-> <<>>]
             ELSE [kind |-> "return", urls |-> <<>>]
    ELSE IF ~ans.readable THEN [kind |-> "throw", urls |-> <<>>]
    ELSE [kind |-> "return", urls |-> UrlsOf(ans.results, count)]

\* what fetchImagesForQuery does with the answer to its request
Gen_onImageAnswer(ans, count, retried) ==
    IF ans.kind = "reject" THEN [kind |-> "throw", urls |-> <<>>]
    ELSE IF ans.kind = "status"
      THEN IF ans.status \in {429, 503} /\ ~retried
             THEN [kind |-> "retry", urls |-> <<>>]
             ELSE [kind |-> "return", urls |-> <<>>]
    ELSE IF ~ans.readable THEN [kind |-> "throw", urls |-> <<>>]
    ELSE [kind |-> "return", urls |-> UrlsOf(ans.results, count)]

\* [...new Set(imagePool)]
RECURSIVE Dedupe(_)
Dedupe(seq) ==
    IF seq = <<>> THEN <<>>
    ELSE LET init == Dedupe(SubSeq(seq, 1, Len(seq) - 1))
             last == seq[Len(seq)]
         IN  IF \E j \in 1..Len(init) : init[j] = last THEN init ELSE Append(init, last)

\* new Map(metricsList.map((m) => [m.keyword, m])).get(kw) || zero record
Gen_byKw(metricsList, kw) ==
    LET at == {j \in 1..Len(metricsList) : metricsList[j].keyword = kw}
    IN  IF at = {}
          THEN [keyword |-> kw, averageInterest |-> Zero, trendSlope |-> Zero, score |-> 0]
          ELSE metricsList[CHOOSE j \in at : \A h \in at : h <= j]

\* an output that keeps only the keywords with a positive score
Gen_toOutput_scoredOnly(keywords, metricsList) ==
    SortByScoreDesc(SelectSeq(metricsList, LAMBDA m : m.score > 0))

Gen_toOutput(keywords, metricsList) ==
    SortByScoreDesc([j \in 1..Len(keywords) |-> Gen_byKw(metricsList, keywords[j])])

\* x % m for x >= 0 and a whole m > 0
Remainder(x, m) == Sub(x, Num(m * Floor(DivInt(x, m)), 1))

\* an array element read at an index the array does not have (null in the JSON written)
UndefinedUrl == "undefined"

\* the slice of the pool a keyword without images of its own is given
\*   const start = poolOffset % imagePool.length;
\*   for (let i = 0; i < IMAGES_PER_TREND; i++)
\*     urls.push(imagePool[(start + i) % imagePool.length]);
\* the loop runs for i = 0 .. Ceil(count) - 1; an index that is no whole number reads
\* undefined
Gen_poolSlice(imagePool, poolOffset, count) ==
    LET start == Remainder(poolOffset, Len(imagePool))
    IN  [j \in 1..Ceil(count) |->
            LET at == Remainder(Add(start, Num(j - 1, 1)), Len(imagePool))
            IN  IF at.d = 1 THEN imagePool[at.n + 1] ELSE UndefinedUrl]

Gen_trend(m, imagesByKeyword, imagePool, count, month) ==
    [name |-> m.keyword,
     score |-> m.score,
     averageInterest |-> m.averageInterest,
     trendSlope |-> m.trendSlope,
     images |-> IF m.keyword \in DOMAIN imagesByKeyword /\ Len(imagesByKeyword[m.keyword]) > 0
                  THEN imagesByKeyword[m.keyword]
                  ELSE Slice(imagePool, 0, Floor(count)),
     whyTrending |-> getWhyTrending(m.keyword, m.score),
     season |-> getSeason(m.keyword, month),
     occasion |-> getOccasion(m.keyword)]

\* a loop that puts each record at the head of its bucket
RECURSIVE Gen_byOccasion_unshift(_)
Gen_byOccasion_unshift(trends) ==
    IF trends = <<>> THEN <<>>
    ELSE LET init == Gen_byOccasion_unshift(SubSeq(trends, 1, Len(trends) - 1))
             t == trends[Len(trends)]
             occ == IF t.occasion # "" THEN t.occasion ELSE "casual"
         IN  IF occ \in DOMAIN init
               THEN [init EXCEPT ![occ] = <<t>> \o @]
               ELSE (occ :> <<t>>) @@ init

\* the loop that fills byOccasion
RECURSIVE Gen_byOccasion(_)
Gen_byOccasion(trends) ==
    IF trends = <<>> THEN <<>>
    ELSE LET init == Gen_byOccasion(SubSeq(trends, 1, Len(trends) - 1))
             t == trends[Len(trends)]
             occ == IF t.occasion # "" THEN t.occasion ELSE "casual"
         IN  IF occ \in DOMAIN init
               THEN [init EXCEPT ![occ] = Append(@, t)]
               ELSE (occ :> <<t>>) @@ init

(***************************************************************************)
(* trendsService.js getValidatedTrends, routes/trends.js configuration     *)
(***************************************************************************)
\* a filter that drops the candidates whose score equals the threshold
Api_validated_strict(results, threshold) ==
    SortByScoreDesc(SelectSeq(results, LAMBDA r : Less(threshold, Num(r.score, 1))))

\* results.filter((r) => r.score >= threshold).sort((a, b) => b.score - a.score)
Api_validated(results, threshold) ==
    SortByScoreDesc(SelectSeq(results, LAMBDA r : ~Less(Num(r.score, 1), threshold)))

\* a threshold that falls back to 10 only when the setting is not a number
Api_THRESHOLD_keepsZero(raw) ==
    LET n == EnvNumber(raw)
    IN  IF IsNaN(n) THEN Num(10, 1) ELSE n

\* Number(process.env.TREND_SCORE_THRESHOLD) || 10
Api_THRESHOLD(raw) ==
    LET n == EnvNumber(raw)
    IN  IF IsNaN(n) \/ n = Zero THEN Num(10, 1) ELSE n

\* what imageService.fetchImagesForKeyword does with the answer to its request
Api_onImageAnswer(ans, count) ==
    IF ans.kind = "reject" THEN [kind |-> "throw", urls |-> <<>>]
    ELSE IF ans.kind = "status" THEN [kind |-> "throw", urls |-> <<>>]
    ELSE IF ~ans.readable THEN [kind |-> "throw", urls |-> <<>>]
    ELSE [kind |-> "return", urls |-> UrlsOf(ans.results, count)]

(***************************************************************************)
(* State.                                                                  *)
(***************************************************************************)
VARIABLES
    \* one call of fetchTrendMetrics and of getInterestForKeyword
    sc_pc,          \* "ready", "generator", "done"
    sc_keyword,     \* the keyword asked for
    sc_res,         \* what the trend provider answers
    sc_gen,         \* the promise fetchTrendMetrics returns
    sc_api,         \* the promise getInterestForKeyword returns
    sc_genValues,   \* fetchTrendMetrics: the values its .then callback extracted
    sc_apiValues,   \* getInterestForKeyword: the values its .then callback extracted
    sc_res2,        \* what the trend provider answers to a second call
    sc_gen2,        \* the promise the second call of fetchTrendMetrics returns
    \* one call of the classifier functions
    cl_pc,          \* "ready", "occasion", "season", "done"
    cl_keyword,     \* the keyword classified
    cl_month,       \* new Date().getMonth() at the call
    cl_occasion,    \* getOccasion(keyword) of generateTrends.js
    cl_season,      \* getSeason(keyword) of generateTrends.js
    cl_fseason,     \* getSeason(keyword) of trendFormatter.js
    \* one candidate scored by the strategy its data allows
    co_pc,          \* "ready", "done"
    co_candidate,   \* the candidate record
    co_score,       \* the strategy used, the sub-scores and the score
    \* one run of the batch generator (main) or one GET /api/trends request
    program,        \* "generator" or "api"
    keywords,       \* the keyword list of the run: KEYWORDS or config/keywords.js
    env,            \* process.env: UNSPLASH_ACCESS_KEY, IMAGES_PER_TREND, TREND_SCORE_THRESHOLD
    provider,       \* for each keyword of the list, the answers the trend provider can give
    unsplash,       \* the answers the image provider can give during the run
    pc,             \* where the run is
    i_batch,        \* main: the batch loop's index i
    promises,       \* the keyword fetches the run awaits with Promise.all
    answers,        \* what the trend provider answered to each of them, until the join
    metricsList,    \* main: the results of the batches joined so far
    toOutput,       \* main: the ranked metrics
    validated,      \* route: what getValidatedTrends returned
    q_pool,         \* main: the image pool loop's position in GUARANTEED_IMAGE_QUERIES
    imagePool,      \* main: the fallback image pool
    poolOffset,     \* main: the pool offset
    imagesByKeyword,\* main: the images found for each keyword
    m_out,          \* the image loop's position in toOutput / validated
    call,           \* the image lookup in progress: the term tried, retried or not, the
                    \* requests sent for it, the status that led to the retry and the
                    \* urls the earlier terms of the lookup yielded
    month,          \* new Date().getMonth() when the records are built, -1 before
    trends,         \* the records built
    byOccasion,     \* main: the records by occasion
    outputFile,     \* main: data/trends.json
    exitCode,       \* main: the exit status, -1 while running
    response        \* route: the response sent

scVars == <<sc_pc, sc_keyword, sc_res, sc_gen, sc_api, sc_genValues, sc_apiValues,
           sc_res2, sc_gen2>>
clVars == <<cl_pc, cl_keyword, cl_month, cl_occasion, cl_season, cl_fseason>>
cfgVars == <<program, keywords, env, provider, unsplash>>
runVars == <<pc, i_batch, promises, answers, metricsList, toOutput, validated, q_pool, imagePool,
             poolOffset, imagesByKeyword, m_out, call, month, trends, byOccasion, outputFile, exitCode,
             response>>
coVars == <<co_pc, co_candidate, co_score>>
vars == <<scVars, clVars, coVars, cfgVars, runVars>>

Pending(v) == [state |-> "pending", value |-> v]

ScIdle ==
    /\ sc_pc = "idle"
    /\ sc_keyword = ""
    /\ sc_res = Response("reject", <<>>)
    /\ sc_gen = Pending(ZeroMetrics(""))
    /\ sc_api = Pending([keyword |-> "", score |-> 0])
    /\ sc_genValues = <<>>
    /\ sc_apiValues = <<>>
    /\ sc_res2 = Response("reject", <<>>)
    /\ sc_gen2 = Pending(ZeroMetrics(""))

NoCandidate ==
    [engagement |-> [present |-> FALSE, score |-> Zero], ageHours |-> 0, stale |-> Zero,
     source |-> "", assigned |-> 0, averageInterest |-> Zero, trendSlope |-> Zero]

NoScore ==
    [strategy |-> "", engagement |-> Zero, recency |-> Zero, credibility |-> Zero,
     completeness |-> Zero, score |-> 0]

CoIdle ==
    /\ co_pc = "idle"
    /\ co_candidate = NoCandidate
    /\ co_score = NoScore

ClIdle ==
    /\ cl_pc = "idle"
    /\ cl_keyword = ""
    /\ cl_month = 0
    /\ cl_occasion = ""
    /\ cl_season = ""
    /\ cl_fseason = ""

Unset == [set |-> FALSE, number |-> NaN]
EnvSet(n) == [set |-> TRUE, number |-> n]
NoFile == [written |-> FALSE, trends |-> <<>>, byOccasion |-> <<>>]
NoResponse == [status |-> 0, trends |-> <<>>, message |-> FALSE]
NoCall == [term |-> 0, retried |-> FALSE, requests |-> 0, status |-> 0, found |-> 0]
NoAnswer == Response("none", <<>>)

\* the state of a run before it starts
RunFresh ==
    /\ pc = "start"
    /\ i_batch = 0
    /\ promises = <<>>
    /\ answers = <<>>
    /\ metricsList = <<>>
    /\ toOutput = <<>>
    /\ validated = <<>>
    /\ q_pool = 0
    /\ imagePool = <<>>
    /\ poolOffset = Zero
    /\ imagesByKeyword = <<>>
    /\ m_out = 0
    /\ call = NoCall
    /\ month = -1
    /\ trends = <<>>
    /\ byOccasion = <<>>
    /\ outputFile = NoFile
    /\ exitCode = -1
    /\ response = NoResponse

RunIdle ==
    /\ program = "none"
    /\ keywords = <<>>
    /\ env = [UNSPLASH_ACCESS_KEY |-> "", IMAGES_PER_TREND |-> Unset,
              TREND_SCORE_THRESHOLD |-> Unset]
    /\ provider = <<>>
    /\ unsplash = {}
    /\ RunFresh

(***************************************************************************)
(* SpecScore: the two score functions on every provider answer within the  *)
(* bounds.                                                                 *)
(***************************************************************************)
\* what one timeline entry may carry: numbers (in range, above 100, negative,
\* fractional), a non-numeric value, no value at all, or a null entry
SampleValues ==
    {Num(10, 1), Num(20, 1), Num(30, 1), Num(150, 1), Num(-5, 1), Num(46, 100),
     NaN, Undefined, NullSample}

SeqsUpTo(S, n) == UNION {[1..m -> S] : m \in 0..n}

ProviderResponses ==
    {Response(kind, <<>>) : kind \in {"reject", "unparsable", "noTimeline", "notArray"}}
    \cup {Response("timeline", MkTimeline(shape, xs)) :
            shape \in EntryShapes, xs \in SeqsUpTo(SampleValues, MaxLen)}

\* the callback reaches its timeline.map(...).filter(...) when the answer parses to a
\* non-empty array; a null entry makes the map callback throw
ReachesValues(res) ==
    /\ res.kind = "timeline"
    /\ Len(res.timeline) > 0
    /\ \A i \in 1..Len(res.timeline) : ~res.timeline[i].isNull

ScoreInit ==
    /\ sc_pc = "ready"
    /\ sc_keyword \in {"mom jeans"}
    /\ sc_res \in ProviderResponses
    /\ sc_gen = Pending(ZeroMetrics(""))
    /\ sc_api = Pending([keyword |-> "", score |-> 0])
    /\ sc_genValues = <<>>
    /\ sc_apiValues = <<>>
    /\ sc_res2 = Response("reject", <<>>)
    /\ sc_gen2 = Pending(ZeroMetrics(""))
    /\ ClIdle
    /\ RunIdle
    /\ CoIdle

Score_fetchTrendMetrics ==
    /\ sc_pc = "ready"
    /\ sc_gen' = fetchTrendMetrics(sc_keyword, sc_res)
    /\ sc_genValues' = IF ReachesValues(sc_res) THEN Gen_values(sc_res.timeline) ELSE <<>>
    /\ sc_pc' = "generator"
    /\ UNCHANGED <<sc_keyword, sc_res, sc_api, sc_apiValues, sc_res2, sc_gen2, clVars, coVars, cfgVars, runVars>>

Score_getInterestForKeyword ==
    /\ sc_pc = "generator"
    /\ sc_api' = getInterestForKeyword(sc_keyword, sc_res)
    /\ sc_apiValues' = IF ReachesValues(sc_res) THEN Api_values(sc_res.timeline) ELSE <<>>
    /\ sc_pc' = "done"
    /\ UNCHANGED <<sc_keyword, sc_res, sc_gen, sc_genValues, sc_res2, sc_gen2, clVars, coVars, cfgVars, runVars>>

ScoreNext == Score_fetchTrendMetrics \/ Score_getInterestForKeyword

SpecScore == ScoreInit /\ [][ScoreNext]_vars

(***************************************************************************)
(* SpecPair: two calls of fetchTrendMetrics, each answered with a timeline *)
(* of one to MaxLen valid samples.                                         *)
(***************************************************************************)
PairSamples == {Zero, Num(10, 1), Num(30, 1), Num(100, 1)}

PairResponses ==
    {Response("timeline", MkTimeline("value", xs)) :
        xs \in UNION {[1..n -> PairSamples] : n \in 1..MaxLen}}

PairInit ==
    /\ sc_pc = "ready"
    /\ sc_keyword = "mom jeans"
    /\ sc_res \in PairResponses
    /\ sc_res2 \in PairResponses
    /\ sc_gen = Pending(ZeroMetrics(""))
    /\ sc_gen2 = Pending(ZeroMetrics(""))
    /\ sc_api = Pending([keyword |-> "", score |-> 0])
    /\ sc_genValues = <<>>
    /\ sc_apiValues = <<>>
    /\ ClIdle
    /\ RunIdle
    /\ CoIdle

Pair_fetchFirst ==
    /\ sc_pc = "ready"
    /\ sc_gen' = fetchTrendMetrics(sc_keyword, sc_res)
    /\ sc_genValues' = Gen_values(sc_res.timeline)
    /\ sc_pc' = "first"
    /\ UNCHANGED <<sc_keyword, sc_res, sc_api, sc_apiValues, sc_res2, sc_gen2,
                   clVars, coVars, cfgVars, runVars>>

Pair_fetchSecond ==
    /\ sc_pc = "first"
    /\ sc_gen2' = fetchTrendMetrics(sc_keyword, sc_res2)
    /\ sc_pc' = "done"
    /\ UNCHANGED <<sc_keyword, sc_res, sc_gen, sc_api, sc_genValues, sc_apiValues, sc_res2,
                   clVars, coVars, cfgVars, runVars>>

PairNext == Pair_fetchFirst \/ Pair_fetchSecond

SpecPair == PairInit /\ [][PairNext]_vars

(***************************************************************************)
(* SpecClassify: the classifier functions on every input keyword and month *)
(***************************************************************************)
Months == 0..11

ClassifyInit ==
    /\ cl_pc = "ready"
    /\ cl_keyword \in ClassifierInputs
    /\ cl_month \in Months
    /\ cl_occasion = ""
    /\ cl_season = ""
    /\ cl_fseason = ""
    /\ ScIdle
    /\ RunIdle
    /\ CoIdle

Classify_getOccasion ==
    /\ cl_pc = "ready"
    /\ cl_occasion' = getOccasion(cl_keyword)
    /\ cl_pc' = "occasion"
    /\ UNCHANGED <<cl_keyword, cl_month, cl_season, cl_fseason, scVars, coVars, cfgVars, runVars>>

Classify_getSeason ==
    /\ cl_pc = "occasion"
    /\ cl_season' = getSeason(cl_keyword, cl_month)
    /\ cl_pc' = "season"
    /\ UNCHANGED <<cl_keyword, cl_month, cl_occasion, cl_fseason, scVars, coVars, cfgVars, runVars>>

Classify_Formatter_getSeason ==
    /\ cl_pc = "season"
    /\ cl_fseason' = Formatter_getSeason(cl_keyword, cl_month)
    /\ cl_pc' = "done"
    /\ UNCHANGED <<cl_keyword, cl_month, cl_occasion, cl_season, scVars, coVars, cfgVars, runVars>>

ClassifyNext == Classify_getOccasion \/ Classify_getSeason \/ Classify_Formatter_getSeason

SpecClassify == ClassifyInit /\ [][ClassifyNext]_vars

(***************************************************************************)
(* The batch generator: main() of generateTrends.js                        *)
(***************************************************************************)
accessKey == Gen_accessKey(env.UNSPLASH_ACCESS_KEY)
IMAGES_PER_TREND == ImagesPerTrend(env.IMAGES_PER_TREND)

\* KEYWORDS.slice(i, i + BATCH_SIZE)
\* a slice that overlaps the next batch by one keyword
Gen_batch_overlapping == Slice(keywords, i_batch, i_batch + BATCH_SIZE + 1)

Gen_batch == Slice(keywords, i_batch, i_batch + BATCH_SIZE)

\* a join that goes on as soon as one fetch has settled
SomeFulfilled == \E s \in DOMAIN promises : promises[s].state = "fulfilled"

AllFulfilled == \A s \in DOMAIN promises : promises[s].state = "fulfilled"
SomeRejected == \E s \in DOMAIN promises : promises[s].state = "rejected"

\* main is entered: the batch loop starts at i = 0
Gen_Main ==
    /\ program = "generator"
    /\ pc = "start"
    /\ pc' = "batch"
    /\ UNCHANGED <<i_batch, promises, metricsList, toOutput, validated, q_pool, imagePool,
                   poolOffset, imagesByKeyword, m_out, call, month, trends, byOccasion,
                   outputFile, exitCode, response>>
    /\ UNCHANGED <<scVars, clVars, coVars, cfgVars, answers>>

\* batch.map((kw) => fetchTrendMetrics(kw)): every keyword of the batch is asked for
Gen_StartBatch ==
    /\ program = "generator"
    /\ pc = "batch"
    /\ i_batch < Len(keywords)
    /\ promises' = [s \in 1..Len(Gen_batch) |-> Pending(ZeroMetrics(Gen_batch[s]))]
    /\ answers' = [s \in 1..Len(Gen_batch) |-> NoAnswer]
    /\ pc' = "awaitBatch"
    /\ UNCHANGED <<i_batch, metricsList, toOutput, validated, q_pool, imagePool,
                   poolOffset, imagesByKeyword, m_out, call, month, trends, byOccasion,
                   outputFile, exitCode, response>>
    /\ UNCHANGED <<scVars, clVars, coVars, cfgVars>>

\* the trend provider answers one outstanding fetch of the batch
Gen_TrendsAnswer ==
    /\ program = "generator"
    /\ pc = "awaitBatch"
    /\ \E s \in DOMAIN promises :
       \E res \in provider[i_batch + s] :
          /\ promises[s].state = "pending"
          /\ promises' = [promises EXCEPT ![s] = fetchTrendMetrics(Gen_batch[s], res)]
          /\ answers' = [answers EXCEPT ![s] = res]
    /\ UNCHANGED <<pc, i_batch, metricsList, toOutput, validated, q_pool, imagePool,
                   poolOffset, imagesByKeyword, m_out, call, month, trends, byOccasion,
                   outputFile, exitCode, response>>
    /\ UNCHANGED <<scVars, clVars, coVars, cfgVars>>

\* await Promise.all(...) settles; metricsList.push(...results); the delay, if any
Gen_JoinBatch ==
    /\ program = "generator"
    /\ pc = "awaitBatch"
    /\ AllFulfilled \/ SomeRejected
    /\ IF SomeRejected
         THEN /\ pc' = "catch"
              /\ UNCHANGED <<i_batch, promises, answers, metricsList>>
         ELSE /\ metricsList' = metricsList \o [s \in DOMAIN promises |-> promises[s].value]
              /\ promises' = <<>>
              /\ answers' = <<>>
              /\ IF i_batch + BATCH_SIZE < Len(keywords)
                   THEN pc' = "batchDelay" /\ UNCHANGED i_batch
                   ELSE pc' = "batch" /\ i_batch' = i_batch + BATCH_SIZE
    /\ UNCHANGED <<toOutput, validated, q_pool, imagePool,
                   poolOffset, imagesByKeyword, m_out, call, month, trends, byOccasion,
                   outputFile, exitCode, response>>
    /\ UNCHANGED <<scVars, clVars, coVars, cfgVars>>

\* BATCH_DELAY_MS have passed: the next iteration of the batch loop
Gen_BatchDelay ==
    /\ program = "generator"
    /\ pc = "batchDelay"
    /\ i_batch' = i_batch + BATCH_SIZE
    /\ pc' = "batch"
    /\ UNCHANGED <<promises, metricsList, toOutput, validated, q_pool, imagePool,
                   poolOffset, imagesByKeyword, m_out, call, month, trends, byOccasion,
                   outputFile, exitCode, response>>
    /\ UNCHANGED <<scVars, clVars, coVars, cfgVars, answers>>

\* the batch loop is over: byKw, toOutput and its sort
Gen_Rank ==
    /\ program = "generator"
    /\ pc = "batch"
    /\ i_batch >= Len(keywords)
    /\ toOutput' = Gen_toOutput(keywords, metricsList)
    /\ imagePool' = <<>>
    /\ q_pool' = 0
    /\ pc' = "pool"
    /\ UNCHANGED <<i_batch, promises, metricsList, validated,
                   poolOffset, imagesByKeyword, m_out, call, month, trends, byOccasion,
                   outputFile, exitCode, response>>
    /\ UNCHANGED <<scVars, clVars, coVars, cfgVars, answers>>

\* the pool loop calls fetchImagesForQuery(q, 15, accessKey)
Gen_PoolQuery ==
    /\ program = "generator"
    /\ pc = "pool"
    /\ accessKey # ""
    /\ q_pool < Len(GUARANTEED_IMAGE_QUERIES)
    /\ IF KeyDisabled(accessKey)
         THEN /\ q_pool' = q_pool + 1
              /\ UNCHANGED <<pc, call>>
         ELSE /\ pc' = "poolRequest"
              /\ call' = [term |-> q_pool + 1, retried |-> FALSE, requests |-> 1, status |-> 0, found |-> 0]
              /\ UNCHANGED q_pool
    /\ UNCHANGED <<i_batch, promises, metricsList, toOutput, validated, imagePool,
                   poolOffset, imagesByKeyword, m_out, month, trends, byOccasion,
                   outputFile, exitCode, response>>
    /\ UNCHANGED <<scVars, clVars, coVars, cfgVars, answers>>

\* the image provider answers a request of the pool loop
Gen_PoolAnswer ==
    /\ program = "generator"
    /\ pc = "poolRequest"
    /\ \E ans \in unsplash :
          LET r == Gen_onImageAnswer(ans, Num(15, 1), call.retried)
          IN  IF r.kind = "retry"
                THEN /\ call' = [call EXCEPT !.retried = TRUE, !.requests = @ + 1,
                                              !.status = ans.status]
                     /\ UNCHANGED <<pc, imagePool, q_pool>>
              ELSE IF r.kind = "throw"
                THEN /\ pc' = "catch"
                     /\ UNCHANGED <<call, imagePool, q_pool>>
              ELSE /\ imagePool' = imagePool \o r.urls
                   /\ q_pool' = q_pool + 1
                   /\ call' = NoCall
                   /\ pc' = "pool"
    /\ UNCHANGED <<i_batch, promises, metricsList, toOutput, validated,
                   poolOffset, imagesByKeyword, m_out, month, trends, byOccasion,
                   outputFile, exitCode, response>>
    /\ UNCHANGED <<scVars, clVars, coVars, cfgVars, answers>>

\* the pool loop is over (or skipped): the pool is deduplicated, poolOffset = 0
Gen_PoolDone ==
    /\ program = "generator"
    /\ pc = "pool"
    /\ accessKey = "" \/ q_pool = Len(GUARANTEED_IMAGE_QUERIES)
    /\ imagePool' = IF accessKey # "" THEN Dedupe(imagePool) ELSE imagePool
    /\ poolOffset' = Zero
    /\ imagesByKeyword' = <<>>
    /\ m_out' = 0
    /\ pc' = "images"
    /\ UNCHANGED <<i_batch, promises, metricsList, toOutput, validated, q_pool,
                   call, month, trends, byOccasion, outputFile, exitCode, response>>
    /\ UNCHANGED <<scVars, clVars, coVars, cfgVars, answers>>

\* a fetchImagesForKeyword without the last, generic query
Gen_queryOrder_noGeneric ==
    <<"keyword", "fallbacks[0]", "fallbacks[1]", "fallbacks[2]">>

\* the queries fetchImagesForKeyword tries, in order; fallbacks is what
\* getFallbackSearchTerms(keyword) returns, always three terms
Gen_queryOrder ==
    <<"keyword", "fallbacks[0]", "fallbacks[1]", "fallbacks[2]", "women fashion outfit style">>

\* the rest of the image loop's body once fetchImagesForKeyword returned urls
Gen_assignImages(urls) ==
    LET kw == toOutput[m_out + 1].keyword
        fromPool == Len(urls) = 0 /\ Len(imagePool) > 0
    IN  /\ imagesByKeyword' =
              (kw :> IF fromPool
                       THEN Gen_poolSlice(imagePool, poolOffset, IMAGES_PER_TREND)
                       ELSE urls) @@ imagesByKeyword
        /\ poolOffset' = IF fromPool THEN Add(poolOffset, IMAGES_PER_TREND) ELSE poolOffset
        /\ m_out' = m_out + 1
        /\ call' = NoCall
        /\ pc' = "images"

\* the image loop calls fetchImagesForKeyword(m.keyword, IMAGES_PER_TREND, accessKey);
\* with the key disabled every query returns [] without a request
Gen_ImageQuery ==
    /\ program = "generator"
    /\ pc = "images"
    /\ m_out < Len(toOutput)
    /\ IF KeyDisabled(accessKey)
         THEN Gen_assignImages(<<>>)
         ELSE /\ pc' = "imageRequest"
              /\ call' = [term |-> 1, retried |-> FALSE, requests |-> 1, status |-> 0, found |-> 0]
              /\ UNCHANGED <<imagesByKeyword, poolOffset, m_out>>
    /\ UNCHANGED <<i_batch, promises, metricsList, toOutput, validated, q_pool, imagePool,
                   month, trends, byOccasion, outputFile, exitCode, response>>
    /\ UNCHANGED <<scVars, clVars, coVars, cfgVars, answers>>

\* the image provider answers a request of fetchImagesForKeyword
Gen_ImageAnswer ==
    /\ program = "generator"
    /\ pc = "imageRequest"
    /\ \E ans \in unsplash :
          LET r == Gen_onImageAnswer(ans, IMAGES_PER_TREND, call.retried)
          IN  IF r.kind = "retry"
                THEN /\ call' = [call EXCEPT !.retried = TRUE, !.requests = @ + 1,
                                              !.status = ans.status]
                     /\ UNCHANGED <<pc, imagesByKeyword, poolOffset, m_out>>
              ELSE IF r.kind = "throw"
                THEN /\ pc' = "catch"
                     /\ UNCHANGED <<call, imagesByKeyword, poolOffset, m_out>>
              ELSE IF Len(r.urls) = 0 /\ call.term < Len(Gen_queryOrder)
                THEN /\ call' = [term |-> call.term + 1, retried |-> FALSE, requests |-> 1,
                                  status |-> 0, found |-> call.found + Len(r.urls)]
                     /\ UNCHANGED <<pc, imagesByKeyword, poolOffset, m_out>>
              ELSE Gen_assignImages(r.urls)
    /\ UNCHANGED <<i_batch, promises, metricsList, toOutput, validated, q_pool, imagePool,
                   month, trends, byOccasion, outputFile, exitCode, response>>
    /\ UNCHANGED <<scVars, clVars, coVars, cfgVars, answers>>

\* the image loop is over: trends and byOccasion are built
Gen_Emit ==
    /\ program = "generator"
    /\ pc = "images"
    /\ m_out = Len(toOutput)
    /\ \E now \in Months :
          /\ month' = now
          /\ trends' = [j \in 1..Len(toOutput) |->
                          Gen_trend(toOutput[j], imagesByKeyword, imagePool,
                                    IMAGES_PER_TREND, now)]
    /\ byOccasion' = Gen_byOccasion(trends')
    /\ pc' = "write"
    /\ UNCHANGED <<i_batch, promises, metricsList, toOutput, validated, q_pool, imagePool,
                   poolOffset, imagesByKeyword, m_out, call, outputFile, exitCode, response>>
    /\ UNCHANGED <<scVars, clVars, coVars, cfgVars, answers>>

\* fs.writeFileSync(OUTPUT_FILE, JSON.stringify(payload)); main returns
Gen_Write ==
    /\ program = "generator"
    /\ pc = "write"
    /\ outputFile' = [written |-> TRUE, trends |-> trends, byOccasion |-> byOccasion]
    /\ exitCode' = 0
    /\ pc' = "done"
    /\ UNCHANGED <<i_batch, promises, metricsList, toOutput, validated, q_pool, imagePool,
                   poolOffset, imagesByKeyword, m_out, call, month, trends, byOccasion,
                   response>>
    /\ UNCHANGED <<scVars, clVars, coVars, cfgVars, answers>>

\* a catch handler that saves what the run had built before it exits
Gen_Catch_writesPartial ==
    /\ program = "generator"
    /\ pc = "catch"
    /\ outputFile' = [written |-> TRUE, trends |-> trends, byOccasion |-> byOccasion]
    /\ exitCode' = 1
    /\ pc' = "exited"
    /\ UNCHANGED <<i_batch, promises, metricsList, toOutput, validated, q_pool, imagePool,
                   poolOffset, imagesByKeyword, m_out, call, month, trends, byOccasion,
                   response>>
    /\ UNCHANGED <<scVars, clVars, coVars, cfgVars, answers>>

\* main().catch: console.error(err); process.exit(1)
Gen_Catch ==
    /\ program = "generator"
    /\ pc = "catch"
    /\ exitCode' = 1
    /\ pc' = "exited"
    /\ UNCHANGED <<i_batch, promises, metricsList, toOutput, validated, q_pool, imagePool,
                   poolOffset, imagesByKeyword, m_out, call, month, trends, byOccasion,
                   outputFile, response>>
    /\ UNCHANGED <<scVars, clVars, coVars, cfgVars, answers>>

GenNext ==
    \/ Gen_Main \/ Gen_StartBatch \/ Gen_TrendsAnswer \/ Gen_JoinBatch \/ Gen_BatchDelay
    \/ Gen_Rank \/ Gen_PoolQuery \/ Gen_PoolAnswer \/ Gen_PoolDone
    \/ Gen_ImageQuery \/ Gen_ImageAnswer \/ Gen_Emit \/ Gen_Write \/ Gen_Catch

(***************************************************************************)
(* The API service: GET /api/trends of routes/trends.js                    *)
(***************************************************************************)
\* trendsService.js: const BATCH_SIZE = 5 (not read by any function)
Api_BATCH_SIZE == 5

UNSPLASH_KEY == env.UNSPLASH_ACCESS_KEY
THRESHOLD == Api_THRESHOLD(env.TREND_SCORE_THRESHOLD)
Api_IMAGES_PER_TREND == ImagesPerTrend(env.IMAGES_PER_TREND)

\* the handler is entered: the key check, then getValidatedTrends asks for every keyword
Api_Route ==
    /\ program = "api"
    /\ pc = "start"
    /\ IF KeyDisabled(UNSPLASH_KEY)
         THEN /\ response' = [status |-> 503, trends |-> <<>>, message |-> TRUE]
              /\ pc' = "done"
              /\ UNCHANGED <<promises, answers>>
         ELSE /\ promises' = [s \in 1..Len(keywords) |->
                                 Pending([keyword |-> keywords[s], score |-> 0])]
              /\ answers' = [s \in 1..Len(keywords) |-> NoAnswer]
              /\ pc' = "awaitAll"
              /\ UNCHANGED response
    /\ UNCHANGED <<i_batch, metricsList, toOutput, validated, q_pool, imagePool,
                   poolOffset, imagesByKeyword, m_out, call, month, trends, byOccasion,
                   outputFile, exitCode>>
    /\ UNCHANGED <<scVars, clVars, coVars, cfgVars>>

\* the trend provider answers one outstanding fetch
Api_TrendsAnswer ==
    /\ program = "api"
    /\ pc = "awaitAll"
    /\ \E s \in DOMAIN promises :
       \E res \in provider[s] :
          /\ promises[s].state = "pending"
          /\ promises' = [promises EXCEPT ![s] = getInterestForKeyword(keywords[s], res)]
          /\ answers' = [answers EXCEPT ![s] = res]
    /\ UNCHANGED <<pc, i_batch, metricsList, toOutput, validated, q_pool, imagePool,
                   poolOffset, imagesByKeyword, m_out, call, month, trends, byOccasion,
                   outputFile, exitCode, response>>
    /\ UNCHANGED <<scVars, clVars, coVars, cfgVars>>

\* a handler without the early answer for an empty validated list
Api_Join_noEmptyAnswer ==
    /\ program = "api"
    /\ pc = "awaitAll"
    /\ AllFulfilled \/ SomeRejected
    /\ IF SomeRejected
         THEN /\ response' = [status |-> 500, trends |-> <<>>, message |-> TRUE]
              /\ pc' = "done"
              /\ UNCHANGED <<validated, promises, answers, m_out, month>>
         ELSE /\ validated' = Api_validated([s \in DOMAIN promises |-> promises[s].value],
                                            THRESHOLD)
              /\ answers' = <<>>
              /\ UNCHANGED promises
              /\ pc' = "images"
              /\ m_out' = 0
              /\ month' \in Months
              /\ UNCHANGED response
    /\ UNCHANGED <<i_batch, metricsList, toOutput, q_pool, imagePool,
                   poolOffset, imagesByKeyword, call, trends, byOccasion,
                   outputFile, exitCode>>
    /\ UNCHANGED <<scVars, clVars, coVars, cfgVars>>

\* Promise.all settles; getValidatedTrends filters and sorts; the empty answer
Api_Join ==
    /\ program = "api"
    /\ pc = "awaitAll"
    /\ AllFulfilled \/ SomeRejected
    /\ IF SomeRejected
         THEN /\ response' = [status |-> 500, trends |-> <<>>, message |-> TRUE]
              /\ pc' = "done"
              /\ UNCHANGED <<validated, promises, answers, m_out, month>>
         ELSE /\ validated' = Api_validated([s \in DOMAIN promises |-> promises[s].value],
                                            THRESHOLD)
              /\ answers' = <<>>
              /\ UNCHANGED promises
              /\ IF Len(validated') = 0
                   THEN /\ response' = [status |-> 200, trends |-> <<>>, message |-> TRUE]
                        /\ pc' = "done"
                        /\ UNCHANGED <<m_out, month>>
                   ELSE /\ pc' = "images"
                        /\ m_out' = 0
                        /\ month' \in Months
                        /\ UNCHANGED response
    /\ UNCHANGED <<i_batch, metricsList, toOutput, q_pool, imagePool,
                   poolOffset, imagesByKeyword, call, trends, byOccasion,
                   outputFile, exitCode>>
    /\ UNCHANGED <<scVars, clVars, coVars, cfgVars>>

\* the loop over validated calls imageService.fetchImagesForKeyword
Api_ImageQuery ==
    /\ program = "api"
    /\ pc = "images"
    /\ m_out < Len(validated)
    /\ pc' = "imageRequest"
    /\ call' = [term |-> 1, retried |-> FALSE, requests |-> 1, status |-> 0, found |-> 0]
    /\ UNCHANGED <<i_batch, promises, metricsList, toOutput, validated, q_pool, imagePool,
                   poolOffset, imagesByKeyword, m_out, month, trends, byOccasion,
                   outputFile, exitCode, response>>
    /\ UNCHANGED <<scVars, clVars, coVars, cfgVars, answers>>

\* the image provider answers; a throw is caught in the loop; trends.push(...)
Api_ImageAnswer ==
    /\ program = "api"
    /\ pc = "imageRequest"
    /\ \E ans \in unsplash :
          LET r == Api_onImageAnswer(ans, Api_IMAGES_PER_TREND)
              v == validated[m_out + 1]
              imageUrls == IF r.kind = "throw" THEN <<>> ELSE r.urls
          IN  trends' = Append(trends,
                               [name |-> v.keyword,
                                score |-> v.score,
                                images |-> imageUrls,
                                whyTrending |-> Formatter_getWhyTrending(v.keyword, v.score),
                                season |-> Formatter_getSeason(v.keyword, month)])
    /\ m_out' = m_out + 1
    /\ call' = NoCall
    /\ pc' = "images"
    /\ UNCHANGED <<i_batch, promises, metricsList, toOutput, validated, q_pool, imagePool,
                   poolOffset, imagesByKeyword, month, byOccasion,
                   outputFile, exitCode, response>>
    /\ UNCHANGED <<scVars, clVars, coVars, cfgVars, answers>>

\* res.json({generatedAt, trends})
Api_Respond ==
    /\ program = "api"
    /\ pc = "images"
    /\ m_out = Len(validated)
    /\ response' = [status |-> 200, trends |-> trends, message |-> FALSE]
    /\ pc' = "done"
    /\ UNCHANGED <<i_batch, promises, metricsList, toOutput, validated, q_pool, imagePool,
                   poolOffset, imagesByKeyword, m_out, call, month, trends, byOccasion,
                   outputFile, exitCode>>
    /\ UNCHANGED <<scVars, clVars, coVars, cfgVars, answers>>

ApiNext ==
    \/ Api_Route \/ Api_TrendsAnswer \/ Api_Join
    \/ Api_ImageQuery \/ Api_ImageAnswer \/ Api_Respond

(***************************************************************************)
(* Spec: one run of the generator or one request to the API, over a        *)
(* keyword list cut to the bound and with the providers' answers drawn     *)
(* from the sets the run is started with.                                  *)
(***************************************************************************)
\* the positions in KEYWORDS of the keywords a bounded run keeps, in declaration order
KeywordPicks == <<1, 10, 14, 48, 68, 77, 81, 92, 99, 103>>

Gen_keywords(n) == [j \in 1..n |-> KEYWORDS[KeywordPicks[j]]]
Api_keywordList(n) == SubSeq(Api_keywords, 1, n)

\* a timeline as google-trends-api sends it: entries with a value field
Timeline(xs) ==
    Response("timeline", MkTimeline("value", [j \in 1..Len(xs) |-> Num(xs[j], 1)]))

\* a timeline none of whose entries is a sample: a non-numeric and a negative value
InvalidTimeline == Response("timeline", MkTimeline("value", <<NaN, Num(-5, 1)>>))

RichTrends ==
    {Response("reject", <<>>), Response("unparsable", <<>>), Response("noTimeline", <<>>),
     Response("timeline", <<>>), InvalidTimeline,
     Timeline(<<5>>), Timeline(<<10>>), Timeline(<<15>>), Timeline(<<10, 20, 30>>)}

PoorTrends == {Response("reject", <<>>), Timeline(<<10>>)}

\* answers that score 5, 10 and 15 in the API service
ThresholdTrends == {Timeline(<<5>>), Timeline(<<10>>), Timeline(<<15>>)}

\* a trend provider every call to which fails
FailedFetches == {Response("reject", <<>>), Response("unparsable", <<>>)}

\* single-sample timelines whose scores lie on both sides of the whyTrending bands
BandTrends == {Timeline(<<39>>), Timeline(<<40>>), Timeline(<<69>>), Timeline(<<70>>)}

ImageAnswer(kind, status, readable, results) ==
    [kind |-> kind, status |-> status, readable |-> readable, results |-> results]

Photos == <<
    Photo("u1", "", ""), Photo("", "", ""), Photo("", "u2", ""), Photo("", "", "u3"),
    Photo("u4", "u4s", "u4t"), Photo("u1", "", ""), Photo("u5", "", "")
>>

RichImages ==
    {ImageAnswer("reject", 0, FALSE, <<>>),
     ImageAnswer("status", 429, FALSE, <<>>),
     ImageAnswer("status", 503, FALSE, <<>>),
     ImageAnswer("status", 500, FALSE, <<>>),
     ImageAnswer("ok", 200, FALSE, <<>>),
     ImageAnswer("ok", 200, TRUE, <<>>),
     ImageAnswer("ok", 200, TRUE, Photos)}

PoorImages == {ImageAnswer("ok", 200, TRUE, Photos)}

Env(key, images, threshold) ==
    [UNSPLASH_ACCESS_KEY |-> key, IMAGES_PER_TREND |-> images,
     TREND_SCORE_THRESHOLD |-> threshold]

Run(prog, kws, e, trendAnswers, imageAnswers) ==
    [program |-> prog, keywords |-> kws, env |-> e,
     provider |-> [j \in 1..Len(kws) |-> trendAnswers],
     unsplash |-> imageAnswers]

\* a run in which the answer to each keyword is fixed beforehand
FixedAnswers == <<
    Timeline(<<10>>), Timeline(<<15>>), Timeline(<<10>>), Response("reject", <<>>),
    Timeline(<<5>>), Timeline(<<15>>), Timeline(<<10, 20, 30>>), Response("noTimeline", <<>>),
    Timeline(<<10>>)
>>

FixedRun(prog, kws, e, imageAnswers) ==
    [program |-> prog, keywords |-> kws, env |-> e,
     provider |-> [j \in 1..Len(kws) |-> {FixedAnswers[((j - 1) % Len(FixedAnswers)) + 1]}],
     unsplash |-> imageAnswers]

\* IMAGES_PER_TREND unset, not a number, 0, negative, too large, whole, fractional
ImageCountSettings ==
    {Unset, EnvSet(NaN), EnvSet(Zero), EnvSet(Num(-2, 1)), EnvSet(Num(9, 1)),
     EnvSet(Num(3, 1)), EnvSet(Num(7, 2))}

\* an image provider that finds the photos or finds nothing
FoundOrNot == {ImageAnswer("ok", 200, TRUE, <<>>), ImageAnswer("ok", 200, TRUE, Photos)}

ThresholdSettings ==
    {Unset, EnvSet(NaN), EnvSet(Zero), EnvSet(Num(12, 1)), EnvSet(Num(-1, 1))}

Runs ==
    {Run("generator", Gen_keywords(NumKeywords), Env("", Unset, Unset), RichTrends, {}),
     Run("generator", Gen_keywords(NumKeywords), Env("key", Unset, Unset), PoorTrends, RichImages),
     Run("generator", Gen_keywords(NumKeywords), Env(PLACEHOLDER_KEY, Unset, Unset), PoorTrends, {}),
     Run("generator", Gen_keywords(BATCH_SIZE + 1), Env("", Unset, Unset), PoorTrends, {}),
     Run("api", Api_keywordList(NumKeywords), Env("key", Unset, Unset), PoorTrends, RichImages),
     Run("api", Api_keywordList(NumKeywords), Env("", Unset, Unset), PoorTrends, {}),
     Run("api", Api_keywordList(NumKeywords), Env(PLACEHOLDER_KEY, Unset, Unset), PoorTrends, {}),
     Run("generator", Gen_keywords(NumKeywords), Env("", Unset, Unset), BandTrends, {}),
     Run("api", Api_keywordList(NumKeywords), Env("key", Unset, Unset), BandTrends, PoorImages),
     FixedRun("generator", Gen_keywords(NumKeywords), Env("", Unset, Unset), {}),
     FixedRun("generator", Gen_keywords(BATCH_SIZE + 1), Env("", Unset, Unset), {}),
     FixedRun("api", Api_keywordList(NumKeywords), Env("key", Unset, Unset), PoorImages),
     FixedRun("api", Api_keywordList(Api_BATCH_SIZE + 1), Env("key", Unset, Unset), PoorImages)}
    \cup {Run("api", Api_keywordList(NumKeywords), Env("key", Unset, t),
               IF t = Unset THEN RichTrends ELSE ThresholdTrends, PoorImages) :
            t \in ThresholdSettings}
    \cup {Run("api", Api_keywordList(NumKeywords), Env("key", Unset, t), FailedFetches, PoorImages) :
            t \in ThresholdSettings}
    \cup {FixedRun(prog, IF prog = "api" THEN Api_keywordList(NumKeywords)
                                         ELSE Gen_keywords(NumKeywords),
                    Env("key", c, Unset), FoundOrNot) :
            prog \in {"generator", "api"}, c \in ImageCountSettings}

RunInit ==
    /\ \E r \in Runs :
          /\ program = r.program
          /\ keywords = r.keywords
          /\ env = r.env
          /\ provider = r.provider
          /\ unsplash = r.unsplash
    /\ RunFresh
    /\ ScIdle
    /\ ClIdle
    /\ CoIdle

Next == GenNext \/ ApiNext

Spec == RunInit /\ [][Next]_vars

(***************************************************************************)
(* Properties of the score functions (SpecScore).                          *)
(***************************************************************************)
\* the samples a timeline carries, as the provider sent them
HasSample(res, x) ==
    /\ res.kind = "timeline"
    /\ \E i \in 1..Len(res.timeline) :
          \/ res.timeline[i].values0.extracted_value = x
          \/ res.timeline[i].values0.value = x
          \/ res.timeline[i].value = x
          \/ res.timeline[i].extracted_value = x

IsRoundOf(s, x) == ~Less(x, Num(2 * s - 1, 2)) /\ Less(x, Num(2 * s + 1, 2))

Clamp0To100(x) ==
    IF Less(x, Zero) THEN Zero ELSE IF Less(Num(100, 1), x) THEN Num(100, 1) ELSE x

\* the timeline of the given samples, in some entry shape
IsTimelineOf(res, xs) ==
    /\ res.kind = "timeline"
    /\ \E shape \in EntryShapes : res.timeline = MkTimeline(shape, xs)

C2_Scored ==
    /\ sc_pc # "ready"
    /\ sc_res.kind = "timeline"
    /\ \A i \in 1..Len(sc_res.timeline) : ~sc_res.timeline[i].isNull
    /\ Len(Gen_values(sc_res.timeline)) > 0

\* C2: for a non-empty extracted series fetchTrendMetrics gives
\* score = round(clamp(mean + 2 * max(0, slope), 0, 100)) from the unrounded mean
\* and slope = (last - first) / (count - 1) (0 for one sample); averageInterest is
\* the mean to one decimal and trendSlope the slope to two; [10, 20, 30] gives
\* averageInterest 20, trendSlope 10, score 40.
C2_ScoreFormula ==
    /\ C2_Scored =>
         LET series == Gen_values(sc_res.timeline)
             count == Len(series)
             mean == DivInt(SumSeq(series), count)
             slope == IF count > 1
                        THEN DivInt(Sub(series[count], series[1]), count - 1)
                        ELSE Zero
             up == IF Less(Zero, slope) THEN slope ELSE Zero
             m == sc_gen.value
         IN  /\ IsRoundOf(m.score, Clamp0To100(Add(mean, Add(up, up))))
             /\ m.averageInterest.d \in {1, 2, 5, 10}
             /\ IsRoundOf(MulInt(m.averageInterest, 10).n, MulInt(mean, 10))
             /\ 100 % m.trendSlope.d = 0
             /\ IsRoundOf(MulInt(m.trendSlope, 100).n, MulInt(slope, 100))
             /\ m.keyword = sc_keyword
    /\ sc_pc # "ready" /\ IsTimelineOf(sc_res, <<Num(10, 1), Num(20, 1), Num(30, 1)>>) =>
         sc_gen = Fulfilled([keyword |-> sc_keyword, averageInterest |-> Num(20, 1),
                             trendSlope |-> Num(10, 1), score |-> 40])

\* the series [10, 20, 30] was scored 40
C2_Witness ==
    /\ sc_pc = "done"
    /\ IsTimelineOf(sc_res, <<Num(10, 1), Num(20, 1), Num(30, 1)>>)
    /\ sc_gen.value.score = 40

(***************************************************************************)
(* Properties of the classifier (SpecClassify).                            *)
(***************************************************************************)
Occasions ==
    {"work and office", "casual", "date night", "birthday party", "marriage and bride",
     "festivals and events", "brunch and cafes", "vacation", "gym and athleisure",
     "formal events"}

\* the substring rules of getOccasion in the order the code lists them
ListedRules == <<
    [cues |-> {"blazer", "trousers", "office"}, occasion |-> "work and office"],
    [cues |-> {"jogger", "athleisure", "sport"}, occasion |-> "gym and athleisure"],
    [cues |-> {"party", "sequin", "glitter"}, occasion |-> "birthday party"],
    [cues |-> {"bridal", "bride", "marriage", "lehenga", "saree"}, occasion |-> "marriage and bride"],
    [cues |-> {"formal", "elegant"}, occasion |-> "formal events"],
    [cues |-> {"beach", "vacation", "resort"}, occasion |-> "vacation"],
    [cues |-> {"brunch", "cafe", "sunday"}, occasion |-> "brunch and cafes"],
    [cues |-> {"festival", "concert", "boho"}, occasion |-> "festivals and events"],
    [cues |-> {"date", "night", "dinner"}, occasion |-> "date night"]
>>

RuleMatches(r, lower) == \E c \in ListedRules[r].cues : includes(lower, c)

C9_BridalOutranksParty ==
    cl_pc # "ready" =>
        LET lower == toLowerCase(cl_keyword)
        IN  (/\ lower \notin DOMAIN OCCASION_MAP
             /\ includes(lower, "bridal") \/ includes(lower, "bride") \/ includes(lower, "marriage")
             /\ includes(lower, "party"))
            => cl_occasion = "marriage and bride"

\* C10: getSeason returns the first of summer, winter, fall, spring that has a cue
\* occurring in the lowercased keyword, and otherwise the season of the month
\* (2-4 spring, 5-7 summer, 8-10 fall, 11, 0 and 1 winter); the generator's and the
\* formatter's copies agree.
C10_Season ==
    cl_pc = "done" =>
        LET lower == toLowerCase(cl_keyword)
            has(cues) == \E c \in cues : includes(lower, c)
            expected ==
                IF has({"summer", "linen", "sundress", "beach", "resort"}) THEN "summer"
                ELSE IF has({"winter", "coat", "wool", "layered", "boots"}) THEN "winter"
                ELSE IF has({"fall", "autumn", "sweater", "jacket", "plaid"}) THEN "fall"
                ELSE IF has({"spring", "floral", "pastel", "light"}) THEN "spring"
                ELSE IF cl_month \in {2, 3, 4} THEN "spring"
                ELSE IF cl_month \in {5, 6, 7} THEN "summer"
                ELSE IF cl_month \in {8, 9, 10} THEN "fall"
                ELSE "winter"
        IN  /\ cl_season = expected
            /\ cl_fseason = cl_season

\* a keyword with a winter cue and a summer cue, classified summer in a winter month
C10_Witness ==
    /\ cl_pc = "done"
    /\ cl_keyword = "summer coat"
    /\ cl_month = 0
    /\ cl_season = "summer"
    /\ cl_fseason = "summer"


(***************************************************************************)
(* Properties of a run (Spec).                                             *)
(***************************************************************************)
\* the keyword the s-th fetch of the awaited group was started for
AwaitedKeyword(s) == IF program = "generator" THEN keywords[i_batch + s] ELSE keywords[s]

\* provider answers that are a failure or carry no valid sample
FailingAnswers ==
    {Response("reject", <<>>), Response("unparsable", <<>>), Response("noTimeline", <<>>),
     Response("timeline", <<>>), InvalidTimeline}

FourFieldZero(kw) ==
    [keyword |-> kw, averageInterest |-> Zero, trendSlope |-> Zero, score |-> 0]

TwoFieldZero(kw) == [keyword |-> kw, score |-> 0]

\* C3 as the specification states it: in both programs, a keyword whose provider call
\* fails or yields no valid sample gets exactly the candidate
\* {keyword, averageInterest: 0, trendSlope: 0, score: 0}.
C3_ZeroRecordFourFields ==
    \A s \in DOMAIN answers :
        answers[s] \in FailingAnswers =>
            /\ promises[s].state = "fulfilled"
            /\ promises[s].value = FourFieldZero(AwaitedKeyword(s))

\* C3, amended: a keyword whose provider call fails or yields no valid sample gets
\* exactly {keyword, averageInterest: 0, trendSlope: 0, score: 0} in the generator and
\* exactly {keyword, score: 0} in the API service; the fetch is fulfilled, never
\* rejected; and the siblings of a failed keyword keep what their own answers give
\* them: still pending if unanswered, score 10 for the timeline [10].
C3_FailureAbsorbedPerKeyword ==
    \A s \in DOMAIN answers :
        /\ answers[s] = NoAnswer => promises[s].state = "pending"
        /\ answers[s] # NoAnswer => promises[s].state = "fulfilled"
        /\ answers[s] \in FailingAnswers =>
              promises[s].value = IF program = "generator"
                                    THEN FourFieldZero(AwaitedKeyword(s))
                                    ELSE TwoFieldZero(AwaitedKeyword(s))
        /\ answers[s] = Timeline(<<10>>) =>
              /\ promises[s].value.keyword = AwaitedKeyword(s)
              /\ promises[s].value.score = 10

\* an API request in which one keyword's call was rejected and a sibling scored 10
C3_Witness ==
    /\ program = "api"
    /\ \E s, t \in DOMAIN answers :
          /\ answers[s] = Response("reject", <<>>)
          /\ promises[s] = Fulfilled(TwoFieldZero(keywords[s]))
          /\ answers[t] = Timeline(<<10>>)
          /\ promises[t] = Fulfilled([keyword |-> keywords[t], score |-> 10])

\* C4: once the generator has built its output, and in the file it writes, trends
\* holds exactly one record for every entry of the keyword list, whichever fetches
\* failed.
C4_OneRecordPerKeyword ==
    (program = "generator" /\ pc \in {"write", "done"}) =>
        /\ Len(trends) = Len(keywords)
        /\ \A j \in 1..Len(keywords) :
              Cardinality({t \in 1..Len(trends) : trends[t].name = keywords[j]}) = 1
        /\ outputFile.written => outputFile.trends = trends

\* a written file in which one keyword's fetch failed (score 0) and another's did not
C4_Witness ==
    /\ program = "generator"
    /\ pc = "done"
    /\ outputFile.written
    /\ Len(outputFile.trends) = Len(keywords)
    /\ \E a, b \in 1..Len(outputFile.trends) :
          outputFile.trends[a].score = 0 /\ outputFile.trends[b].score > 0

\* C5 as the specification states it: no failure of an image query ends the run; the
\* generator never reaches main().catch and the route never answers 500.
C5_ImageFailureNeverEndsRun ==
    /\ pc \notin {"catch", "exited"}
    /\ exitCode # 1
    /\ response.status # 500

\* C6: what getValidatedTrends returns holds exactly the candidates whose score is at
\* least the threshold, each once; with threshold 10 and scores 5, 15, 10 it is the
\* second candidate followed by the third.
C6_ValidatedExactly ==
    (program = "api" /\ pc # "awaitAll" /\ promises # <<>>) =>
        LET results == [s \in DOMAIN promises |-> promises[s].value]
            passes(r) == ~Less(Num(r.score, 1), THRESHOLD)
        IN  /\ \A s \in DOMAIN results :
                  passes(results[s]) <=>
                      Cardinality({j \in 1..Len(validated) : validated[j] = results[s]}) = 1
            /\ \A j \in 1..Len(validated) : \E s \in DOMAIN results : validated[j] = results[s]
            /\ Len(validated) = Cardinality({s \in DOMAIN results : passes(results[s])})
            /\ (/\ THRESHOLD = Num(10, 1)
                /\ [s \in DOMAIN results |-> results[s].score] = <<5, 15, 10>>)
                   => validated = <<results[2], results[3]>>

\* the scenario of the claim: threshold 10, scores 5, 15 and 10
C6_Witness ==
    /\ program = "api"
    /\ pc = "done"
    /\ THRESHOLD = Num(10, 1)
    /\ Len(promises) = 3
    /\ [s \in DOMAIN promises |-> promises[s].value.score] = <<5, 15, 10>>
    /\ Len(validated) = 2
    /\ validated[1].score = 15
    /\ validated[2].score = 10

Ranked == IF program = "generator" THEN toOutput ELSE validated

KeywordPosition(kw) == CHOOSE j \in 1..Len(keywords) : keywords[j] = kw

\* C7: in both programs the ranked list is in non-increasing order of score, and
\* candidates of equal score stand in the order of the keyword list.
C7_RankedOrder ==
    \A j, k \in 1..Len(Ranked) :
        j < k =>
            /\ Ranked[j].score >= Ranked[k].score
            /\ Ranked[j].score = Ranked[k].score =>
                  KeywordPosition(Ranked[j].keyword) < KeywordPosition(Ranked[k].keyword)

\* a ranking that moved a later keyword to the front and holds a tie
C7_Witness ==
    /\ Len(Ranked) >= 3
    /\ Ranked[1].keyword # keywords[1]
    /\ \E j, k \in 1..Len(Ranked) : j < k /\ Ranked[j].score = Ranked[k].score

\* C11: the whyTrending of every record built, written or sent interpolates that
\* record's own name and uses the "Strong" template iff its score is at least 70,
\* "Growing" iff the score is at least 40 and below 70, "Steady" iff below 40.
C11_WhyTrendingBand ==
    \A list \in {trends, outputFile.trends, response.trends} :
        \A t \in 1..Len(list) :
            LET r == list[t]
            IN  /\ r.whyTrending.keyword = r.name
                /\ r.whyTrending.template \in {"Strong", "Growing", "Steady"}
                /\ r.whyTrending.template = "Strong" <=> r.score >= 70
                /\ r.whyTrending.template = "Growing" <=> (40 <= r.score /\ r.score < 70)
                /\ r.whyTrending.template = "Steady" <=> r.score < 40

\* records on both sides of each band limit: scores 70, 69, 40 or 39 among them
C11_Witness ==
    /\ pc = "done"
    /\ \E a, b \in 1..Len(trends) :
          /\ trends[a].score = 70 /\ trends[a].whyTrending.template = "Strong"
          /\ trends[b].score = 69 /\ trends[b].whyTrending.template = "Growing"
    /\ \E c \in 1..Len(trends) :
          \/ trends[c].score = 40 /\ trends[c].whyTrending.template = "Growing"
          \/ trends[c].score = 39 /\ trends[c].whyTrending.template = "Steady"

(***************************************************************************)
(* Properties of the extracted series (SpecScore).                         *)
(***************************************************************************)
\* the sample an entry carries (one field of one shape), Undefined when it has none
EntryNested(e) == e.values0.present

EntryRaw(e) ==
    IF e.values0.present
      THEN IF e.values0.extracted_value.k # "undef" THEN e.values0.extracted_value
           ELSE e.values0.value
    ELSE IF e.value.k # "undef" THEN e.value
    ELSE e.extracted_value

Invalid(x) == x.k = "nan" \/ (x.k = "num" /\ Less(x, Zero))

\* every entry kept, the invalid and the field-less ones as the sample 0
CoercedSeries(timeline) ==
    [i \in 1..Len(timeline) |->
        LET x == EntryRaw(timeline[i])
        IN  IF Invalid(x) \/ x.k = "undef" THEN Zero ELSE x]

\* what becomes of one entry: the samples it leaves in the series
EntrySamples(variant, e) ==
    LET x == EntryRaw(e)
    IN  IF x.k = "undef" THEN <<Zero>>
        ELSE IF x.k = "nan" THEN IF EntryNested(e) THEN <<Zero>> ELSE <<>>
        ELSE IF Less(x, Zero)
          THEN IF EntryNested(e) /\ variant = "generator" THEN <<Zero>> ELSE <<>>
        ELSE <<x>>

RECURSIVE ExtractedSeries(_, _)
ExtractedSeries(variant, timeline) ==
    IF timeline = <<>> THEN <<>>
    ELSE EntrySamples(variant, Head(timeline)) \o ExtractedSeries(variant, Tail(timeline))

\* C12 as the specification states it: in every entry shape and in both variants the
\* extracted series keeps every entry, a non-numeric or negative one as the sample 0.
C12_CoercedAndKept ==
    (sc_pc = "done" /\ ReachesValues(sc_res)) =>
        /\ sc_genValues = CoercedSeries(sc_res.timeline)
        /\ sc_apiValues = CoercedSeries(sc_res.timeline)

\* C12, amended: an entry is coerced to the sample 0 and kept when it carries
\* values[0] and is non-numeric (both variants) or negative (generator only), or
\* carries no sample field; a non-numeric or negative top-level value or
\* extracted_value, and in the API a negative values[0] sample, is dropped from the
\* series; every other entry is kept as it is, in timeline order.
C12_CoercedOrDropped ==
    (sc_pc = "done" /\ ReachesValues(sc_res)) =>
        /\ sc_genValues = ExtractedSeries("generator", sc_res.timeline)
        /\ sc_apiValues = ExtractedSeries("api", sc_res.timeline)

\* a top-level timeline 10, non-numeric, 30: the middle entry is dropped in both
C12_Witness ==
    /\ sc_pc = "done"
    /\ sc_res = Response("timeline", MkTimeline("value", <<Num(10, 1), NaN, Num(30, 1)>>))
    /\ sc_genValues = <<Num(10, 1), Num(30, 1)>>
    /\ sc_apiValues = <<Num(10, 1), Num(30, 1)>>
    /\ sc_gen.value.averageInterest = Num(20, 1)

(***************************************************************************)
(* Properties of two scored series (SpecPair).                             *)
(***************************************************************************)
SeriesOf(res) == [i \in 1..Len(res.timeline) |-> res.timeline[i].value]

MeanOf(xs) == DivInt(SumSeq(xs), Len(xs))

SlopeOf(xs) == IF Len(xs) > 1 THEN DivInt(Sub(xs[Len(xs)], xs[1]), Len(xs) - 1) ELSE Zero

RiseOf(xs) == IF Less(Zero, SlopeOf(xs)) THEN SlopeOf(xs) ELSE Zero

LessEq(x, y) == ~Less(y, x)

\* C13: of two series with equal slope the one with the larger mean never gets the
\* smaller score; of two with equal mean the one with the larger max(0, slope)
\* never gets the smaller score; a declining series never scores below
\* round(clamp(mean, 0, 100)).
C13_Monotone ==
    sc_pc = "done" =>
        LET a == SeriesOf(sc_res)
            b == SeriesOf(sc_res2)
            scoreA == sc_gen.value.score
            scoreB == sc_gen2.value.score
        IN  /\ (SlopeOf(a) = SlopeOf(b) /\ LessEq(MeanOf(a), MeanOf(b))) => scoreA <= scoreB
            /\ (MeanOf(a) = MeanOf(b) /\ LessEq(RiseOf(a), RiseOf(b))) => scoreA <= scoreB
            /\ Less(SlopeOf(a), Zero) =>
                  \E floor \in 0..100 :
                      IsRoundOf(floor, Clamp0To100(MeanOf(a))) /\ scoreA >= floor

\* a declining series (100, 30: mean 65) and a rising one of the same mean (30, 100)
C13_Witness ==
    /\ sc_pc = "done"
    /\ SeriesOf(sc_res) = <<Num(100, 1), Num(30, 1)>>
    /\ SeriesOf(sc_res2) = <<Num(30, 1), Num(100, 1)>>
    /\ sc_gen.value.score = 65
    /\ sc_gen2.value.score = 100

\* C14: byOccasion, as built and as written, partitions the ranked trends list: its
\* keys are the occasions of the trends, no bucket is empty, a bucket holds exactly
\* the trends of its occasion, each once, in the order they have in trends.
C14_ByOccasionPartition ==
    (program = "generator" /\ pc \in {"write", "done"}) =>
        /\ DOMAIN byOccasion = {trends[t].occasion : t \in 1..Len(trends)}
        /\ \A occ \in DOMAIN byOccasion :
              /\ Len(byOccasion[occ]) > 0
              /\ byOccasion[occ] = SelectSeq(trends, LAMBDA t : t.occasion = occ)
        /\ \A t \in 1..Len(trends) :
              \A occ \in DOMAIN byOccasion :
                  Cardinality({j \in 1..Len(byOccasion[occ]) : byOccasion[occ][j] = trends[t]})
                      = IF occ = trends[t].occasion THEN 1 ELSE 0
        /\ pc = "done" => outputFile.byOccasion = byOccasion

\* two buckets, one of them with two trends of different scores, the later keyword first
C14_Witness ==
    /\ program = "generator"
    /\ pc = "done"
    /\ Cardinality(DOMAIN outputFile.byOccasion) >= 2
    /\ \E occ \in DOMAIN outputFile.byOccasion :
          LET bucket == outputFile.byOccasion[occ]
          IN  /\ Len(bucket) >= 2
              /\ bucket[1].score > bucket[2].score
              /\ KeywordPosition(bucket[1].name) > KeywordPosition(bucket[2].name)

\* the run was started with one fixed answer for each keyword
FixedProvider == \A j \in DOMAIN provider : Cardinality(provider[j]) = 1

TheAnswer(j) == CHOOSE a \in provider[j] : TRUE

\* C15: when each keyword's provider answer is fixed, the ranked list, and the order
\* of the records built from it, is the ranking of the per-keyword results taken in
\* keyword order, in whichever order the fetches completed.
C15_CompletionOrderIndependent ==
    FixedProvider =>
        /\ (program = "generator"
             /\ pc \in {"pool", "poolRequest", "images", "imageRequest", "write", "done"}) =>
               LET expected == SortByScoreDesc(
                                   [j \in 1..Len(keywords) |->
                                       fetchTrendMetrics(keywords[j], TheAnswer(j)).value])
               IN  /\ toOutput = expected
                   /\ pc \in {"write", "done"} =>
                         [t \in 1..Len(trends) |-> trends[t].name]
                             = [t \in 1..Len(expected) |-> expected[t].keyword]
        /\ (program = "api" /\ pc \in {"images", "imageRequest", "done"}) =>
               LET expected == Api_validated(
                                   [j \in 1..Len(keywords) |->
                                       getInterestForKeyword(keywords[j], TheAnswer(j)).value],
                                   THRESHOLD)
               IN  /\ validated = expected
                   /\ response.status = 200 =>
                         [t \in 1..Len(response.trends) |-> response.trends[t].name]
                             = [t \in 1..Len(expected) |-> expected[t].keyword]

\* a finished generator run with fixed answers 10, 15, 10, ...: the second keyword leads
C15_Witness ==
    /\ FixedProvider
    /\ program = "generator"
    /\ pc = "done"
    /\ Len(keywords) = NumKeywords
    /\ outputFile.trends[1].name = keywords[2]
    /\ outputFile.trends[1].score = 15
    /\ outputFile.trends[2].name = keywords[1]

\* C16: in the generator at most BATCH_SIZE keyword fetches are outstanding; they
\* belong to one batch, the one right after the keywords whose results are in
\* metricsList; metricsList grows by whole batches, in keyword order, and (when the
\* answers are fixed) holds only results of completed fetches.
C16_BatchBarrier ==
    program = "generator" =>
        /\ Len(promises) <= BATCH_SIZE
        /\ \A s \in DOMAIN promises :
              /\ Len(metricsList) + s <= Len(keywords)
              /\ promises[s].value.keyword = keywords[Len(metricsList) + s]
        /\ Len(metricsList) % BATCH_SIZE = 0 \/ Len(metricsList) = Len(keywords)
        /\ \A j \in 1..Len(metricsList) :
              /\ metricsList[j].keyword = keywords[j]
              /\ FixedProvider =>
                    metricsList[j] = fetchTrendMetrics(keywords[j], TheAnswer(j)).value

\* the first batch of BATCH_SIZE is joined and the fetch of the second is outstanding
C16_Witness ==
    /\ program = "generator"
    /\ FixedProvider
    /\ Len(keywords) > BATCH_SIZE
    /\ Len(metricsList) = BATCH_SIZE
    /\ metricsList[2].score = 15
    /\ \E s \in DOMAIN promises : promises[s].state = "pending"

\* C17 as the specification states it: during getValidatedTrends at most BATCH_SIZE (5)
\* keyword fetches are outstanding.
C17_ApiBoundedBatches ==
    program = "api" =>
        Cardinality({s \in DOMAIN promises : promises[s].state = "pending"}) <= Api_BATCH_SIZE

(***************************************************************************)
(* Properties of the image pool and of the images lists (Spec).            *)
(***************************************************************************)
ImagesPhase ==
    program = "generator" /\ pc \in {"images", "imageRequest", "write", "done"}

BeforeImages ==
    program = "generator"
        /\ pc \in {"start", "batch", "awaitBatch", "batchDelay", "pool", "poolRequest"}

\* the url lists a query of fetchImagesForKeyword can return when it finds photos
OwnResults ==
    {UrlsOf(a.results, IMAGES_PER_TREND) : a \in {b \in unsplash : b.kind = "ok" /\ b.readable}}
        \ {<<>>}

\* the k-th keyword of the ranked list was given urls of the pool
FellBack(k) ==
    /\ Len(imagePool) > 0
    /\ imagesByKeyword[toOutput[k].keyword] \notin OwnResults

RECURSIVE FallbacksAmong(_)
FallbacksAmong(k) ==
    IF k = 0 THEN 0 ELSE FallbacksAmong(k - 1) + (IF FellBack(k) THEN 1 ELSE 0)

NoUrl == ""

\* pool[(j * IMAGES_PER_TREND + i) mod poolSize] for the whole i = 0 .. IMAGES_PER_TREND - 1
ClaimedSlice(j) ==
    [i \in 1..Floor(IMAGES_PER_TREND) |->
        LET at == Remainder(Add(MulInt(IMAGES_PER_TREND, j), Num(i - 1, 1)), Len(imagePool))
        IN  IF at.d = 1 THEN imagePool[at.n + 1] ELSE NoUrl]

\* C18 as the specification states it: nothing is assigned and the offset is 0 until
\* the image loop; there the pool is the deduplicated pool and the j-th keyword (from
\* 0, in ranked order) that falls back on it has exactly the urls
\* pool[(j * IMAGES_PER_TREND + i) mod poolSize], i = 0 .. IMAGES_PER_TREND - 1, the
\* offset being IMAGES_PER_TREND times the number of keywords that fell back.
C18_PoolSlices ==
    program = "generator" =>
        /\ BeforeImages => poolOffset = Zero /\ imagesByKeyword = <<>>
        /\ ImagesPhase =>
              /\ imagePool = Dedupe(imagePool)
              /\ Len(imagePool) > 0 =>
                    /\ poolOffset = MulInt(IMAGES_PER_TREND, FallbacksAmong(m_out))
                    /\ \A k \in 1..m_out :
                          FellBack(k) =>
                              imagesByKeyword[toOutput[k].keyword]
                                  = ClaimedSlice(FallbacksAmong(k - 1))

InRange3To5(x) == ~IsNaN(x) /\ LessEq(Num(3, 1), x) /\ LessEq(x, Num(5, 1))

\* C19 as the specification states it: the images-per-trend count lies in [3, 5]
\* whatever IMAGES_PER_TREND is set to, and no record built, written or sent has more
\* images than that count.
C19_CountAndImagesBounded ==
    LET count == IF program = "api" THEN Api_IMAGES_PER_TREND ELSE IMAGES_PER_TREND
    IN  /\ InRange3To5(count)
        /\ \A list \in {trends, outputFile.trends, response.trends} :
              \A t \in 1..Len(list) : LessEq(Num(Len(list[t].images), 1), count)

(***************************************************************************)
(* The run without an image-provider credential (Spec).                    *)
(***************************************************************************)
RunCompleted ==
    /\ pc = "done"
    /\ IF program = "generator"
         THEN outputFile.written /\ Len(outputFile.trends) = Len(keywords)
         ELSE response.status = 200 /\ ~response.message

\* C20 as the specification states it: with UNSPLASH_ACCESS_KEY absent or the
\* placeholder, in the generator and in GET /api/trends alike, no image request is
\* sent, every record's images list is empty, and the run never fails: when it ends
\* it has emitted its trend records.
C20_DisabledProviderStillEmits ==
    (program \in {"generator", "api"} /\ KeyDisabled(env.UNSPLASH_ACCESS_KEY)) =>
        /\ call.requests = 0
        /\ pc \notin {"poolRequest", "imageRequest"}
        /\ imagePool = <<>>
        /\ \A list \in {trends, outputFile.trends, response.trends} :
              \A t \in 1..Len(list) : list[t].images = <<>>
        /\ pc \notin {"catch", "exited"}
        /\ response.status \notin {500, 503}
        /\ pc = "done" => RunCompleted

(***************************************************************************)
(* Properties of the API route's answer (Spec).                            *)
(***************************************************************************)
Answered == program = "api" /\ pc = "done"

EveryFetchFails ==
    /\ DOMAIN provider # {}
    /\ \A s \in DOMAIN provider : provider[s] \subseteq FailedFetches

\* C21 as the specification states it: with a configured key the answer with status
\* 200 carries the message exactly when its trends list is empty, and when every
\* keyword fetch failed the answer is that empty list with the message, status 200.
C21_MessageIffEmptyAlsoAllFailed ==
    (Answered /\ ~KeyDisabled(UNSPLASH_KEY)) =>
        /\ response.status = 200 => (response.message <=> response.trends = <<>>)
        /\ EveryFetchFails =>
              /\ response.status = 200
              /\ response.trends = <<>>
              /\ response.message

\* C21 amended: the message goes with the empty list; when every keyword fetch
\* failed the answer has status 200, and it is the empty list with the message
\* unless the threshold is negative: then every keyword is listed with score 0 and
\* there is no message.
C21_MessageIffEmpty ==
    (Answered /\ ~KeyDisabled(UNSPLASH_KEY)) =>
        /\ response.status = 200 => (response.message <=> response.trends = <<>>)
        /\ EveryFetchFails =>
              /\ response.status = 200
              /\ IF Less(THRESHOLD, Zero) \/ THRESHOLD = Zero
                   THEN /\ ~response.message
                        /\ Len(response.trends) = Len(keywords)
                        /\ \A t \in 1..Len(keywords) :
                              /\ response.trends[t].name = keywords[t]
                              /\ response.trends[t].score = 0
                   ELSE response.trends = <<>> /\ response.message

\* every fetch failed under the default threshold: the empty list with the message
C21_Witness ==
    /\ Answered
    /\ ~KeyDisabled(UNSPLASH_KEY)
    /\ EveryFetchFails
    /\ THRESHOLD = Num(10, 1)
    /\ response = [status |-> 200, trends |-> <<>>, message |-> TRUE]

(***************************************************************************)
(* The API service's score against its description (SpecScore).            *)
(***************************************************************************)
\* C22 as the specification states it: getInterestForKeyword returns a score in
\* 0..100 that is round(clamp(mean of the extracted series, 0, 100)) for a non-empty
\* series and 0 when there is no data.
C22_ScoreIsRoundedMean ==
    sc_pc = "done" =>
        /\ sc_api.state = "fulfilled"
        /\ sc_api.value.score \in 0..100
        /\ sc_api.value.score =
              IF Len(sc_apiValues) > 0
                THEN MathRound(Clamp0To100(MeanOf(sc_apiValues)))
                ELSE 0

(***************************************************************************)
(* Properties of the generator's image lookups (Spec).                     *)
(***************************************************************************)
InQuery == program = "generator" /\ pc \in {"poolRequest", "imageRequest"}

\* C24: one call of fetchImagesForQuery sends at most two requests; the second is sent
\* only in the retry and only after a first response of status 429 or 503; no other
\* answer, and no answer to the retry, leads to another request of the call.
C24_RetryAtMostOnce ==
    program = "generator" =>
        /\ call.requests \in 0..2
        /\ InQuery => call.requests > 0
        /\ call.retried <=> call.requests = 2
        /\ call.retried <=> call.status \in {429, 503}
        /\ ~call.retried => call.status = 0

\* the retry of a query of the image loop after a first response of status 429
C24_Witness ==
    /\ program = "generator"
    /\ pc = "imageRequest"
    /\ call.requests = 2
    /\ call.retried
    /\ call.status = 429

\* the image loop gets what fetchImagesForKeyword returned for its keyword
LookupEnds == program = "generator" /\ pc = "imageRequest" /\ m_out' = m_out + 1

\* C25: fetchImagesForKeyword issues its queries in the order keyword, fallback 1,
\* fallback 2, fallback 3, 'women fashion outfit style', at most five of them; a query
\* is issued only after all earlier ones yielded nothing, and the lookup ends with no
\* image of its own only after the fifth query.
C25_FirstNonEmptyQuery ==
    /\ [](program = "generator" /\ pc = "imageRequest" =>
            /\ call.term \in 1..5
            /\ Gen_queryOrder[call.term] \in
                  {"keyword", "fallbacks[0]", "fallbacks[1]", "fallbacks[2]",
                   "women fashion outfit style"}
            /\ call.found = 0)
    /\ [][/\ (program = "generator" /\ pc = "imageRequest" /\ pc' = "imageRequest") =>
                call'.term \in {call.term, call.term + 1}
          /\ (program = "generator" /\ pc = "images" /\ pc' = "imageRequest") =>
                call'.term = 1
          /\ LookupEnds =>
                LET got == imagesByKeyword'[toOutput[m_out + 1].keyword]
                IN  IF got \in OwnResults /\ poolOffset' = poolOffset
                      THEN TRUE
                      ELSE call.term = 5]_vars

\* the fifth query of a lookup is out: the four before it yielded nothing
C25_Witness ==
    /\ program = "generator"
    /\ pc = "imageRequest"
    /\ call.term = 5
    /\ Gen_queryOrder[call.term] = "women fashion outfit style"
    /\ call.found = 0

(***************************************************************************)
(* Properties of the output file (Spec).                                   *)
(***************************************************************************)
\* every keyword of the list has its scored, illustrated and classified record
CompletePayload(file) ==
    /\ Len(file.trends) = Len(keywords)
    /\ Len(toOutput) = Len(keywords)
    /\ m_out = Len(toOutput)
    /\ \A k \in 1..Len(toOutput) :
          /\ toOutput[k].keyword \in DOMAIN imagesByKeyword
          /\ file.trends[k] = Gen_trend(toOutput[k], imagesByKeyword, imagePool,
                                        IMAGES_PER_TREND, month)
    /\ file.byOccasion = Gen_byOccasion(file.trends)

\* C26: the generator writes data/trends.json at most once, as the last step of a run
\* that scored, illustrated and classified every keyword; a run that reaches
\* main().catch leaves the file as it was and exits with status 1.
C26_WriteOnceAtTheEnd ==
    /\ [](program = "generator" =>
            /\ pc # "done" => outputFile = NoFile
            /\ pc = "done" => outputFile.written /\ CompletePayload(outputFile) /\ exitCode = 0
            /\ pc = "exited" => exitCode = 1
            /\ pc \notin {"done", "exited"} => exitCode = -1)
    /\ [][program = "generator" /\ outputFile' # outputFile =>
              /\ outputFile = NoFile
              /\ pc = "write" /\ pc' = "done"]_vars

\* a run that failed in the image loop, after the first keyword had its images: exit
\* status 1 and no file
C26_Witness ==
    /\ program = "generator"
    /\ pc = "exited"
    /\ exitCode = 1
    /\ m_out > 0
    /\ imagesByKeyword # <<>>
    /\ outputFile = NoFile

(***************************************************************************)
(* Properties of the route's threshold (Spec).                             *)
(***************************************************************************)
\* getValidatedTrends has returned
Filtered ==
    /\ program = "api"
    /\ pc \in {"images", "imageRequest"} \/ (pc = "done" /\ response.status = 200)

IsValidated(kw) == \E v \in 1..Len(validated) : validated[v].keyword = kw

\* C27: the route's threshold is never 0: it is 10 when TREND_SCORE_THRESHOLD is
\* unset, not a number or 0, and the configured number otherwise, a negative one
\* included; so under a setting of 0 (as under the default) a keyword that scored
\* below 10, such as 5, is not among the validated trends, and under a negative
\* setting every keyword is.
C27_ThresholdNeverZero ==
    program = "api" =>
        LET setting == env.TREND_SCORE_THRESHOLD
            default == ~setting.set \/ IsNaN(setting.number) \/ setting.number = Zero
        IN  /\ THRESHOLD # Zero
            /\ ~IsNaN(THRESHOLD)
            /\ THRESHOLD = IF default THEN Num(10, 1) ELSE setting.number
            /\ Filtered =>
                  \A s \in DOMAIN promises :
                      LET r == promises[s].value
                      IN  /\ (default /\ r.score < 10) => ~IsValidated(r.keyword)
                          /\ (default /\ r.score >= 10) => IsValidated(r.keyword)
                          /\ (~default /\ Less(setting.number, Zero)) => IsValidated(r.keyword)

\* TREND_SCORE_THRESHOLD=0: a keyword that scored 5 is filtered out, one that scored
\* 15 is answered
C27_Witness ==
    /\ program = "api"
    /\ env.TREND_SCORE_THRESHOLD = EnvSet(Zero)
    /\ pc = "done"
    /\ response.status = 200
    /\ \E s, t \in DOMAIN promises :
          /\ promises[s].value.score = 5
          /\ ~IsValidated(promises[s].value.keyword)
          /\ promises[t].value.score = 15
          /\ IsValidated(promises[t].value.keyword)

(***************************************************************************)
(* The composite engagement score. The architecture notes place it in      *)
(* utils/scoring.py, which is not among the source files; it is modelled   *)
(* from the specification's description of the Scorer.                     *)
(***************************************************************************)
\* the engagement sub-score: the saturating transform of likes, comments, shares and
\* views is taken as given, a number the transform keeps within 0..100
Composite_engagement(candidate) == Clamp0To100(candidate.engagement.score)

\* a score falling linearly from hi at age from to lo at age to
Composite_decay(age, from, to, hi, lo) ==
    Num(hi * (to - from) - (age - from) * (hi - lo), to - from)

\* the recency sub-score: 0-24h -> 100..80, 24-72h -> 80..60, 72-168h -> 60..40,
\* older -> 40..0 (the candidate's stale value, where the decay ends is not given)
Composite_recency(candidate) ==
    LET age == candidate.ageHours
    IN  IF age <= 24 THEN Composite_decay(age, 0, 24, 100, 80)
        ELSE IF age <= 72 THEN Composite_decay(age, 24, 72, 80, 60)
        ELSE IF age <= 168 THEN Composite_decay(age, 72, 168, 60, 40)
        ELSE MathMin(Num(40, 1), MathMax(Zero, candidate.stale))

\* the per-source multiplier, in tenths
Composite_multiplier(source) ==
    IF source = "google_trends" THEN 12
    ELSE IF source \in {"instagram", "tiktok"} THEN 10
    ELSE IF source \in {"facebook", "pinterest"} THEN 9
    ELSE 8

\* a credibility sub-score that is not clamped
Composite_credibility_unclamped(candidate) ==
    Num(Composite_multiplier(candidate.source) * 100, 10)

\* the source-credibility sub-score: the multiplier applied to 100, then clamped
Composite_credibility(candidate) ==
    Clamp0To100(Num(Composite_multiplier(candidate.source) * 100, 10))

\* the classification-completeness sub-score: the share of style, season, category
\* and occasion that were assigned
Composite_completeness(candidate) == Num(candidate.assigned * 100, 4)

Composite_weighted(e, r, c, k) ==
    Add(Add(DivInt(MulInt(e, 40), 100), DivInt(MulInt(r, 30), 100)),
        Add(DivInt(MulInt(c, 20), 100), DivInt(MulInt(k, 10), 100)))

\* round(clamp(weighted sum, 0, 100))
Composite_score(e, r, c, k) == MathRound(Clamp0To100(Composite_weighted(e, r, c, k)))

\* the Scorer: the composite score when the candidate carries engagement data, the
\* time-series score otherwise
Scorer(candidate) ==
    IF candidate.engagement.present
      THEN LET e == Composite_engagement(candidate)
               r == Composite_recency(candidate)
               c == Composite_credibility(candidate)
               k == Composite_completeness(candidate)
           IN  [strategy |-> "composite", engagement |-> e, recency |-> r,
                credibility |-> c, completeness |-> k,
                score |-> Composite_score(e, r, c, k)]
      ELSE [NoScore EXCEPT !.strategy = "timeSeries",
                           !.score = Gen_score(candidate.averageInterest,
                                               candidate.trendSlope)]

(***************************************************************************)
(* SpecComposite: the Scorer on one candidate.                             *)
(***************************************************************************)
Sources == {"google_trends", "instagram", "tiktok", "facebook", "pinterest", "ecommerce"}

Ages == {0, 12, 24, 48, 72, 120, 168, 400}

Candidates ==
    {[engagement |-> eng, ageHours |-> age, stale |-> IF age > 168 THEN st ELSE Zero,
      source |-> src, assigned |-> n, averageInterest |-> Num(20, 1),
      trendSlope |-> Num(10, 1)] :
        eng \in {[present |-> FALSE, score |-> Zero]}
                   \cup {[present |-> TRUE, score |-> x] :
                            x \in {Zero, Num(100, 3), Num(55, 1), Num(100, 1)}},
        age \in Ages, st \in {Zero, Num(25, 2), Num(40, 1)}, src \in Sources, n \in 0..4}

CompositeInit ==
    /\ co_pc = "ready"
    /\ co_candidate \in Candidates
    /\ co_score = NoScore
    /\ ScIdle
    /\ ClIdle
    /\ RunIdle

Scorer_score ==
    /\ co_pc = "ready"
    /\ co_score' = Scorer(co_candidate)
    /\ co_pc' = "done"
    /\ UNCHANGED <<co_candidate, scVars, clVars, cfgVars, runVars>>

CompositeNext == Scorer_score

SpecComposite == CompositeInit /\ [][CompositeNext]_vars

(***************************************************************************)
(* Properties of the composite score (SpecComposite).                      *)
(***************************************************************************)
InZeroTo100(x) == ~IsNaN(x) /\ LessEq(Zero, x) /\ LessEq(x, Num(100, 1))

=============================================================================
